---- MODULE Spec2Model ----
(***************************************************************************)
(* Model of the Cosentyx form extraction pipeline:                         *)
(*   - ExtractionResult.determine_routing and BusinessRules                *)
(*     (src/src/models/extraction_result.py,                               *)
(*      src/src/validation/business_rules.py)                              *)
(*   - CosentyxFormProcessor.process_document (src/src/processor.py)       *)
(*   - PrescriptionExtractor (src/src/extraction/prescription_extractor.py)*)
(*                                                                         *)
(* Text is modelled by the keywords it contains: every test the code makes *)
(* on a text is a substring or regular-expression test, so a text is the   *)
(* set of the tested keywords that occur in it.  A concatenation of texts  *)
(* contains the keywords of its parts (keywords that would only arise      *)
(* across the joining blank are not modelled).                             *)
(***************************************************************************)
EXTENDS Integers, Sequences, FiniteSets, TLC

VARIABLES
    pc,                   \* position of process_document / of the harness
    result,               \* the ExtractionResult being built
    returned,             \* what process_document handed to its caller
    raised,               \* TRUE iff an exception escaped process_document
    failed_step,          \* the step that raised in the last document, or None
    duplicate_signatures, \* BusinessRules.duplicate_signatures
    docs,                 \* number of documents processed so far
    textract_data,        \* the parsed layout given to PrescriptionExtractor.extract
    combinations,         \* the list built by _detect_checked_combinations
    contributed,          \* the strategies that added to combinations, in order
    prescriptions,        \* the prescriptions of the PrescriptionInfo returned
    request,              \* the arguments of the Bedrock call in progress
    response,             \* what _invoke_bedrock handed back, or None
    threads,              \* the concurrent check_duplicate calls: position and locals
    history,              \* the earlier calls of extract or check_duplicate and their results
    bucket                \* the keys of the objects in the S3 bucket

vars == <<pc, result, returned, raised, failed_step, duplicate_signatures, docs,
          textract_data, combinations, contributed, prescriptions,
          request, response, threads, history, bucket>>

None == "None"

(***************************************************************************)
(* Bounds                                                                  *)
(***************************************************************************)
MaxRx == 2      \* prescriptions in a hand-built container
MaxDocs == 2    \* documents processed by one processor instance

(***************************************************************************)
(* Fields: value (None when absent), confidence in percent, validated.     *)
(* PatientField, PrescriberField, AttestationField and PrescriptionField   *)
(* have the same shape.                                                    *)
(***************************************************************************)
Field(v, c, ok) == [value |-> v, confidence |-> c, validated |-> ok]

DefaultField == Field(None, 0, FALSE)
Good == Field("v", 90, TRUE)       \* found in the form, passed validation
Bad == Field("v", 90, FALSE)       \* found in the form, failed validation
Low == Field("v", 80, TRUE)        \* hand-built field with a low confidence

Truthy(v) == v # None /\ v # ""

(***************************************************************************)
(* Entity models and their is_valid methods                                *)
(***************************************************************************)
PatientFields == {"first_name", "last_name", "dob", "gender", "phone", "email"}
PrescriberFields ==
    {"first_name", "last_name", "npi", "street", "city", "state", "zip", "phone", "fax"}

PatientInfo == [f \in PatientFields |-> DefaultField]
PrescriberInfo == [f \in PrescriberFields |-> DefaultField]
AttestationInfo == [signature_present |-> FALSE, name |-> DefaultField, date |-> DefaultField]

PatientIsValid(p) ==
    /\ p["first_name"].validated
    /\ p["last_name"].validated
    /\ p["dob"].validated
    /\ p["gender"].validated

PrescriberIsValid(p) ==
    LET \* Address.is_valid, prescriber.py 24-35
        AddressIsValid(address) ==
            /\ address["street"].validated
            /\ address["city"].validated
            /\ address["state"].validated
            /\ address["zip"].validated
    IN
    LET has_contact == p["phone"].validated \/ p["fax"].validated
    IN  /\ p["first_name"].validated
        /\ p["last_name"].validated
        /\ p["npi"].validated
        /\ AddressIsValid(p)
        /\ has_contact

AttestationIsValid(a) == a.signature_present /\ a.name.validated /\ a.date.validated

SinglePrescriptionIsValid(rx) ==
    /\ rx.product.validated
    /\ rx.dosage.validated
    /\ rx.form.validated
    /\ rx.dose_type.validated
    /\ rx.quantity.validated
    /\ rx.sig.validated

\* PrescriptionInfo.is_valid: at least one prescription of the list is valid
PrescriptionInfoIsValid(rxs) == \E i \in 1..Len(rxs) : SinglePrescriptionIsValid(rxs[i])

(***************************************************************************)
(* RoutingDecision and ExtractionResult                                    *)
(***************************************************************************)
RoutingDecision(a, cp, cpr, crx, mr, why) ==
    [action |-> a, create_patient_profile |-> cp, create_prescriber_profile |-> cpr,
     create_prescription |-> crx, manual_review_required |-> mr, review_reason |-> why]

ExtractionResult ==
    LET \* RoutingDecision, extraction_result.py 14-27
        DefaultRouting == RoutingDecision("manual_review", FALSE, FALSE, FALSE, FALSE, None)
    IN
    [document_type |-> "unknown",
     classification_confidence |-> 0,
     validation_status |-> "pending",
     patient |-> PatientInfo,
     prescriber |-> PrescriberInfo,
     prescription |-> <<>>,
     attestation |-> AttestationInfo,
     validation_errors |-> <<>>,
     warnings |-> <<>>,
     routing |-> DefaultRouting]

NoResult == [document_type |-> "none"]

(***************************************************************************)
(* ExtractionResult.determine_routing                                      *)
(***************************************************************************)
\* a variant of determine_routing that never looks at the attestation
determine_routing_without_attestation(r) ==
    IF PatientIsValid(r.patient) THEN
        IF PrescriberIsValid(r.prescriber) /\ PrescriptionInfoIsValid(r.prescription) THEN
            [r EXCEPT
                !.routing = RoutingDecision("create_full_profile",
                                TRUE, TRUE, TRUE, FALSE, None),
                !.validation_status = "complete"]
        ELSE
            [r EXCEPT
                !.routing = RoutingDecision("create_patient_only",
                                TRUE, FALSE, FALSE, TRUE,
                                "Missing or invalid prescriber information"),
                !.validation_status = "partial"]
    ELSE
        [r EXCEPT
            !.routing = RoutingDecision("manual_review",
                            FALSE, FALSE, FALSE, TRUE,
                            "Missing or invalid patient information"),
            !.validation_status = "failed"]

determine_routing(r) ==
    LET patient_valid == PatientIsValid(r.patient)
        prescriber_valid == PrescriberIsValid(r.prescriber)
        prescription_valid == PrescriptionInfoIsValid(r.prescription)
        attestation_valid == AttestationIsValid(r.attestation)
    IN  IF patient_valid THEN
            IF prescriber_valid THEN
                IF prescription_valid THEN
                    IF attestation_valid THEN
                        [r EXCEPT
                            !.routing = RoutingDecision("create_full_profile",
                                            TRUE, TRUE, TRUE, FALSE, None),
                            !.validation_status = "complete"]
                    ELSE
                        [r EXCEPT
                            !.routing = RoutingDecision("manual_review",
                                            TRUE, TRUE, TRUE, TRUE,
                                            "Missing or invalid attestation"),
                            !.validation_status = "partial"]
                ELSE
                    [r EXCEPT
                        !.routing = RoutingDecision("create_patient_only",
                                        TRUE, FALSE, FALSE, TRUE,
                                        "Missing or invalid prescription information"),
                        !.validation_status = "partial"]
            ELSE
                [r EXCEPT
                    !.routing = RoutingDecision("create_patient_only",
                                    TRUE, FALSE, FALSE, TRUE,
                                    "Missing or invalid prescriber information"),
                    !.validation_status = "partial"]
        ELSE
            [r EXCEPT
                !.routing = RoutingDecision("manual_review",
                                FALSE, FALSE, FALSE, TRUE,
                                "Missing or invalid patient information"),
                !.validation_status = "failed"]

(***************************************************************************)
(* BusinessRules                                                           *)
(***************************************************************************)
validate_document_type(document_type) ==
    LET acceptable_types == {"ema_start_form", "cosentyx_start_form"}
    IN  document_type \in acceptable_types

low_confidence_threshold == 85

\* the warnings of the fields of one record, in the order the code checks them
RECURSIVE FieldWarnings(_, _, _, _, _)
FieldWarnings(entity, idx, rec, order, k) ==
    LET f == rec[order[k]]
        low == Truthy(f.value) /\ f.confidence < low_confidence_threshold
        warning == [entity |-> entity, index |-> idx, field |-> order[k],
                    confidence |-> f.confidence]
    IN  IF k > Len(order) THEN <<>>
        ELSE (IF low THEN <<warning>> ELSE <<>>)
             \o FieldWarnings(entity, idx, rec, order, k + 1)

RECURSIVE PrescriptionWarnings(_, _)
PrescriptionWarnings(rxs, i) ==
    IF i > Len(rxs) THEN <<>>
    ELSE FieldWarnings("prescription", i - 1, rxs[i],
                       <<"product", "dosage", "form", "dose_type", "quantity">>, 1)
         \o PrescriptionWarnings(rxs, i + 1)

check_low_confidence_warnings(r) ==
    [r EXCEPT !.warnings =
        r.warnings
        \o FieldWarnings("patient", -1, r.patient,
                         <<"first_name", "last_name", "dob", "gender", "phone", "email">>, 1)
        \o FieldWarnings("prescriber", -1, r.prescriber,
                         <<"first_name", "last_name", "npi", "phone">>, 1)
        \o PrescriptionWarnings(r.prescription, 1)]

\* a variant of apply_routing_rules without the document type check
apply_routing_rules_unchecked(r) == check_low_confidence_warnings(determine_routing(r))

apply_routing_rules(r) ==
    IF ~validate_document_type(r.document_type) THEN
        [r EXCEPT
            !.validation_errors = Append(@, "Invalid document type: " \o r.document_type),
            !.validation_status = "failed",
            !.routing.action = "manual_review",
            !.routing.manual_review_required = TRUE,
            !.routing.review_reason = "Invalid document type"]
    ELSE
        check_low_confidence_warnings(determine_routing(r))

\* str.lower() on the values that enter a signature
Lower(s) ==
    CASE s = "V" -> "v"
      [] s = "COSENTYX 150mg" -> "cosentyx 150mg"
      [] s = "COSENTYX 300mg" -> "cosentyx 300mg"
      [] s = "COSENTYX 75mg" -> "cosentyx 75mg"
      [] s = "Sensoready Pen" -> "sensoready pen"
      [] s = "UnoReady Pen" -> "unoready pen"
      [] s = "Prefilled Syringe" -> "prefilled syringe"
      [] s = "Pen" -> "pen"
      [] s = "Loading" -> "loading"
      [] s = "Maintenance" -> "maintenance"
      [] s = "Maintenance Increase" -> "maintenance increase"
      [] s = "Induction" -> "induction"
      [] OTHER -> s

CombinedSignature(r) ==
    LET \* value or "", patient.py 46-48 and prescription.py 68-71
        OrEmpty(v) == IF Truthy(v) THEN v ELSE ""
        \* PatientInfo.get_signature, patient.py 40-49
        PatientSignature(p) ==
            <<Lower(OrEmpty(p["first_name"].value)), Lower(OrEmpty(p["last_name"].value)),
              Lower(OrEmpty(p["dob"].value))>>
        \* SinglePrescription.get_signature, prescription.py 62-72
        PrescriptionSignature(rx) ==
            <<Lower(OrEmpty(rx.product.value)), Lower(OrEmpty(rx.dosage.value)),
              Lower(OrEmpty(rx.form.value)), Lower(OrEmpty(rx.dose_type.value))>>
        \* PrescriptionInfo.get_signatures, sorted by check_duplicate, prescription.py 111-117
        SortedSignatures(rxs) ==
            LET sigs == {PrescriptionSignature(rxs[i]) : i \in 1..Len(rxs)}
            IN  [s \in sigs |-> Cardinality({i \in 1..Len(rxs) : PrescriptionSignature(rxs[i]) = s})]
    IN
                        <<PatientSignature(r.patient), SortedSignatures(r.prescription)>>

(***************************************************************************)
(* Texts.  A text is known by the tests the code makes on it: which of the *)
(* tested keywords it contains and where (first offset, lower-cased text), *)
(* and the first match of each regular expression.  The table holds the    *)
(* texts that the layouts below are made of.                               *)
(***************************************************************************)
Texts ==
    \* "COSENTYX 150 mg"
    ("H150" :>
     [len |-> 15, paren_dose |-> "None", senso_word |-> FALSE,
      table_refills |-> "None", raw_12_or |-> "None", raw_num_refills |-> "None",
      completed_at |-> {}, marker |-> FALSE,
      first |-> ("150" :> 9) @@ ("150 mg" :> 9) @@ ("cosentyx" :> 0) @@ ("cosentyx 150 mg" :> 0)]) @@
    \* "Sensoready(R) Pen (1x150 mg/mL)"
    ("S150" :>
     [len |-> 29, paren_dose |-> "150", senso_word |-> TRUE,
      table_refills |-> "None", raw_12_or |-> "None", raw_num_refills |-> "None",
      completed_at |-> {}, marker |-> FALSE,
      first |-> ("(1x150" :> 16) @@ ("150" :> 19) @@ ("150 mg" :> 19) @@ ("pen" :> 12) @@ ("sensoready" :> 0) @@ ("sensoready(r) pen" :> 0)]) @@
    \* "Loading Dose: Inject 150 mg on Weeks 0, 1, 2, 3"
    ("L150" :>
     [len |-> 47, paren_dose |-> "None", senso_word |-> FALSE,
      table_refills |-> "None", raw_12_or |-> "None", raw_num_refills |-> "None",
      completed_at |-> {}, marker |-> FALSE,
      first |-> ("150" :> 21) @@ ("150 mg" :> 21) @@ ("inject" :> 14) @@ ("inject 150" :> 14) @@ ("loading" :> 0) @@ ("loading dose" :> 0) @@ ("loading dose:" :> 0) @@ ("loading dose: inject" :> 0)]) @@
    \* "Prefilled Syringe (1x150 mg/mL)"
    ("Y150" :>
     [len |-> 31, paren_dose |-> "150", senso_word |-> FALSE,
      table_refills |-> "None", raw_12_or |-> "None", raw_num_refills |-> "None",
      completed_at |-> {}, marker |-> FALSE,
      first |-> ("(1x150" :> 18) @@ ("150" :> 21) @@ ("150 mg" :> 21) @@ ("prefilled" :> 0) @@ ("prefilled syringe" :> 0) @@ ("refill" :> 1) @@ ("syringe" :> 10)]) @@
    \* "Maintenance: Inject 150 mg every 4 weeks"
    ("M150" :>
     [len |-> 40, paren_dose |-> "None", senso_word |-> FALSE,
      table_refills |-> "None", raw_12_or |-> "None", raw_num_refills |-> "None",
      completed_at |-> {}, marker |-> FALSE,
      first |-> ("150" :> 20) @@ ("150 mg" :> 20) @@ ("every 4 weeks" :> 27) @@ ("inject" :> 13) @@ ("inject 150" :> 13) @@ ("maintenance" :> 0) @@ ("maintenance:" :> 0) @@ ("maintenance: inject" :> 0)]) @@
    \* "UnoReady(R) Pen (1x300 mg/2 mL)"
    ("U300" :>
     [len |-> 29, paren_dose |-> "300", senso_word |-> FALSE,
      table_refills |-> "None", raw_12_or |-> "None", raw_num_refills |-> "None",
      completed_at |-> {}, marker |-> FALSE,
      first |-> ("(1x300" :> 14) @@ ("300" :> 17) @@ ("300 mg" :> 17) @@ ("pen" :> 10) @@ ("unoready" :> 0) @@ ("unoready(r) pen" :> 0)]) @@
    \* "Maintenance Increase: Inject 300 mg every 2 weeks (Loading dose already completed)"
    ("I300" :>
     [len |-> 82, paren_dose |-> "None", senso_word |-> FALSE,
      table_refills |-> "None", raw_12_or |-> "None", raw_num_refills |-> "None",
      completed_at |-> {51}, marker |-> FALSE,
      first |-> ("300" :> 29) @@ ("300 mg" :> 29) @@ ("already completed" :> 64) @@ ("every 2 weeks" :> 36) @@ ("inject" :> 22) @@ ("inject 300" :> 22) @@ ("loading" :> 51) @@ ("loading dose" :> 51) @@ ("loading dose " :> 51) @@ ("maintenance" :> 0) @@ ("maintenance " :> 0) @@ ("maintenance increase" :> 0)]) @@
    \* "Prefilled Syringe (1x75 mg/0.5 mL)"
    ("Y75" :>
     [len |-> 34, paren_dose |-> "75", senso_word |-> FALSE,
      table_refills |-> "None", raw_12_or |-> "None", raw_num_refills |-> "None",
      completed_at |-> {}, marker |-> FALSE,
      first |-> ("(1x75" :> 18) @@ ("75" :> 21) @@ ("75 mg" :> 21) @@ ("prefilled" :> 0) @@ ("prefilled syringe" :> 0) @@ ("refill" :> 1) @@ ("syringe" :> 10)]) @@
    \* "Loading Dose: Inject 75 mg on Weeks 0, 1, 2, 3"
    ("L75" :>
     [len |-> 46, paren_dose |-> "None", senso_word |-> FALSE,
      table_refills |-> "None", raw_12_or |-> "None", raw_num_refills |-> "None",
      completed_at |-> {}, marker |-> FALSE,
      first |-> ("75" :> 21) @@ ("75 mg" :> 21) @@ ("inject" :> 14) @@ ("inject 75" :> 14) @@ ("loading" :> 0) @@ ("loading dose" :> 0) @@ ("loading dose:" :> 0) @@ ("loading dose: inject" :> 0)]) @@
    \* "12 refills, or __ refills"
    ("RF" :>
     [len |-> 25, paren_dose |-> "None", senso_word |-> FALSE,
      table_refills |-> "None", raw_12_or |-> "None", raw_num_refills |-> "12",
      completed_at |-> {}, marker |-> FALSE,
      first |-> ("12 refills" :> 0) @@ ("or __" :> 12) @@ ("refill" :> 3) @@ ("refills" :> 3)]) @@
    \* "I have read and agree to the terms and conditions"
    ("A1" :>
     [len |-> 49, paren_dose |-> "None", senso_word |-> FALSE,
      table_refills |-> "None", raw_12_or |-> "None", raw_num_refills |-> "None",
      completed_at |-> {}, marker |-> FALSE,
      first |-> ("i have read and agree" :> 0) @@ ("terms and conditions" :> 29)]) @@
    \* "Fax completed form to the program"
    ("X1" :>
     [len |-> 33, paren_dose |-> "None", senso_word |-> FALSE,
      table_refills |-> "None", raw_12_or |-> "None", raw_num_refills |-> "None",
      completed_at |-> {}, marker |-> FALSE,
      first |-> <<>>]) @@
    \* "Product Information (Adult)"
    ("TH_A" :>
     [len |-> 27, paren_dose |-> "None", senso_word |-> FALSE,
      table_refills |-> "None", raw_12_or |-> "None", raw_num_refills |-> "None",
      completed_at |-> {}, marker |-> FALSE,
      first |-> ("product information (adult)" :> 0)]) @@
    \* "Product Information (Pediatric)"
    ("TH_P" :>
     [len |-> 31, paren_dose |-> "None", senso_word |-> FALSE,
      table_refills |-> "None", raw_12_or |-> "None", raw_num_refills |-> "None",
      completed_at |-> {}, marker |-> FALSE,
      first |-> ("pediatric" :> 21) @@ ("product information (pediatric)" :> 0)]) @@
    \* "COSENTYX 150 mg"
    ("TC150" :>
     [len |-> 15, paren_dose |-> "None", senso_word |-> FALSE,
      table_refills |-> "None", raw_12_or |-> "None", raw_num_refills |-> "None",
      completed_at |-> {}, marker |-> FALSE,
      first |-> ("150" :> 9) @@ ("150 mg" :> 9) @@ ("cosentyx" :> 0) @@ ("cosentyx 150 mg" :> 0)]) @@
    \* "COSENTYX 300 mg"
    ("TC300" :>
     [len |-> 15, paren_dose |-> "None", senso_word |-> FALSE,
      table_refills |-> "None", raw_12_or |-> "None", raw_num_refills |-> "None",
      completed_at |-> {}, marker |-> FALSE,
      first |-> ("300" :> 9) @@ ("300 mg" :> 9) @@ ("cosentyx" :> 0) @@ ("cosentyx 300 mg" :> 0)]) @@
    \* "COSENTYX 75 mg"
    ("TC75" :>
     [len |-> 14, paren_dose |-> "None", senso_word |-> FALSE,
      table_refills |-> "None", raw_12_or |-> "None", raw_num_refills |-> "None",
      completed_at |-> {}, marker |-> FALSE,
      first |-> ("75" :> 9) @@ ("75 mg" :> 9) @@ ("cosentyx" :> 0) @@ ("cosentyx 75 mg" :> 0)]) @@
    \* "Maintenance: every 4 weeks"
    ("TM4" :>
     [len |-> 26, paren_dose |-> "None", senso_word |-> FALSE,
      table_refills |-> "None", raw_12_or |-> "None", raw_num_refills |-> "None",
      completed_at |-> {}, marker |-> FALSE,
      first |-> ("every 4 weeks" :> 13) @@ ("maintenance" :> 0) @@ ("maintenance:" :> 0)]) @@
    \* "Maintenance Increase: every 2 weeks"
    ("TMI" :>
     [len |-> 35, paren_dose |-> "None", senso_word |-> FALSE,
      table_refills |-> "None", raw_12_or |-> "None", raw_num_refills |-> "None",
      completed_at |-> {}, marker |-> FALSE,
      first |-> ("every 2 weeks" :> 22) @@ ("maintenance" :> 0) @@ ("maintenance " :> 0) @@ ("maintenance increase" :> 0)]) @@
    \* "Loading Dose: Weeks 0, 1, 2, 3"
    ("TLD" :>
     [len |-> 30, paren_dose |-> "None", senso_word |-> FALSE,
      table_refills |-> "None", raw_12_or |-> "None", raw_num_refills |-> "None",
      completed_at |-> {}, marker |-> FALSE,
      first |-> ("loading" :> 0) @@ ("loading dose" :> 0) @@ ("loading dose:" :> 0)]) @@
    \* "12 refills, or 3 refills"
    ("TR3" :>
     [len |-> 24, paren_dose |-> "None", senso_word |-> FALSE,
      table_refills |-> "3", raw_12_or |-> "None", raw_num_refills |-> "12",
      completed_at |-> {}, marker |-> FALSE,
      first |-> ("12 refills" :> 0) @@ ("refill" :> 3) @@ ("refills" :> 3)]) @@
    \* "12 refills, or __ refills"
    ("TRG" :>
     [len |-> 25, paren_dose |-> "None", senso_word |-> FALSE,
      table_refills |-> "None", raw_12_or |-> "None", raw_num_refills |-> "12",
      completed_at |-> {}, marker |-> FALSE,
      first |-> ("12 refills" :> 0) @@ ("or __" :> 12) @@ ("refill" :> 3) @@ ("refills" :> 3)]) @@
    \* "N/A"
    ("TNA" :>
     [len |-> 3, paren_dose |-> "None", senso_word |-> FALSE,
      table_refills |-> "None", raw_12_or |-> "None", raw_num_refills |-> "None",
      completed_at |-> {}, marker |-> FALSE,
      first |-> ("n/a" :> 0)]) @@
    \* "COSENTYX 150 mg Pen Loading"
    ("F_150_pen_load" :>
     [len |-> 27, paren_dose |-> "None", senso_word |-> FALSE,
      table_refills |-> "None", raw_12_or |-> "None", raw_num_refills |-> "None",
      completed_at |-> {}, marker |-> FALSE,
      first |-> ("150" :> 9) @@ ("150 mg" :> 9) @@ ("cosentyx" :> 0) @@ ("cosentyx 150 mg" :> 0) @@ ("loading" :> 20) @@ ("pen" :> 16)]) @@
    \* "COSENTYX 300 mg UnoReady Maintenance Increase"
    ("F_300_uno_inc" :>
     [len |-> 45, paren_dose |-> "None", senso_word |-> FALSE,
      table_refills |-> "None", raw_12_or |-> "None", raw_num_refills |-> "None",
      completed_at |-> {}, marker |-> FALSE,
      first |-> ("300" :> 9) @@ ("300 mg" :> 9) @@ ("cosentyx" :> 0) @@ ("cosentyx 300 mg" :> 0) @@ ("maintenance" :> 25) @@ ("maintenance " :> 25) @@ ("maintenance increase" :> 25) @@ ("unoready" :> 16)]) @@
    \* "Pediatric 75 mg Prefilled Syringe Loading Dose"
    ("F_75_syr_load" :>
     [len |-> 46, paren_dose |-> "None", senso_word |-> FALSE,
      table_refills |-> "None", raw_12_or |-> "None", raw_num_refills |-> "None",
      completed_at |-> {}, marker |-> FALSE,
      first |-> ("75" :> 10) @@ ("75 mg" :> 10) @@ ("loading" :> 34) @@ ("loading dose" :> 34) @@ ("pediatric" :> 0) @@ ("prefilled" :> 16) @@ ("prefilled syringe" :> 16) @@ ("refill" :> 17) @@ ("syringe" :> 26)]) @@
    \* "COSENTYX 75 mg Syringe Maintenance"
    ("F_75_syr_maint" :>
     [len |-> 34, paren_dose |-> "None", senso_word |-> FALSE,
      table_refills |-> "None", raw_12_or |-> "None", raw_num_refills |-> "None",
      completed_at |-> {}, marker |-> FALSE,
      first |-> ("75" :> 9) @@ ("75 mg" :> 9) @@ ("cosentyx" :> 0) @@ ("cosentyx 75 mg" :> 0) @@ ("maintenance" :> 23) @@ ("syringe" :> 15)]) @@
    \* "Sensoready Pen"
    ("F_senso" :>
     [len |-> 14, paren_dose |-> "None", senso_word |-> TRUE,
      table_refills |-> "None", raw_12_or |-> "None", raw_num_refills |-> "None",
      completed_at |-> {}, marker |-> FALSE,
      first |-> ("pen" :> 11) @@ ("sensoready" :> 0) @@ ("sensoready pen" :> 0)]) @@
    \* "Patient First Name"
    ("F_name" :>
     [len |-> 18, paren_dose |-> "None", senso_word |-> FALSE,
      table_refills |-> "None", raw_12_or |-> "None", raw_num_refills |-> "None",
      completed_at |-> {}, marker |-> FALSE,
      first |-> <<>>]) @@
    \* ""
    ("R_empty" :>
     [len |-> 0, paren_dose |-> "None", senso_word |-> FALSE,
      table_refills |-> "None", raw_12_or |-> "None", raw_num_refills |-> "None",
      completed_at |-> {}, marker |-> FALSE,
      first |-> <<>>]) @@
    \* "COSENTYX 150mg Pen Loading"
    ("R_plain" :>
     [len |-> 26, paren_dose |-> "None", senso_word |-> FALSE,
      table_refills |-> "None", raw_12_or |-> "None", raw_num_refills |-> "None",
      completed_at |-> {}, marker |-> FALSE,
      first |-> ("150" :> 9) @@ ("150mg" :> 9) @@ ("cosentyx" :> 0) @@ ("loading" :> 19) @@ ("pen" :> 15)]) @@
    \* "(ballot box with check) Sensoready Pen 150 mg"
    ("R_senso150" :>
     [len |-> 23, paren_dose |-> "None", senso_word |-> TRUE,
      table_refills |-> "None", raw_12_or |-> "None", raw_num_refills |-> "None",
      completed_at |-> {}, marker |-> TRUE,
      first |-> ("150" :> 17) @@ ("150 mg" :> 17) @@ ("pen" :> 13) @@ ("sensoready" :> 2) @@ ("sensoready pen" :> 2)]) @@
    \* "Loading Dose 12 or 3 refills"
    ("R_load_r3" :>
     [len |-> 28, paren_dose |-> "None", senso_word |-> FALSE,
      table_refills |-> "None", raw_12_or |-> "3", raw_num_refills |-> "3",
      completed_at |-> {}, marker |-> FALSE,
      first |-> ("loading" :> 0) @@ ("loading dose" :> 0) @@ ("loading dose " :> 0) @@ ("refill" :> 21) @@ ("refills" :> 21)]) @@
    \* "[x] Prefilled Syringe 75 mg Maintenance N/A"
    ("R_syr75" :>
     [len |-> 43, paren_dose |-> "None", senso_word |-> FALSE,
      table_refills |-> "None", raw_12_or |-> "None", raw_num_refills |-> "None",
      completed_at |-> {}, marker |-> TRUE,
      first |-> ("75" :> 22) @@ ("75 mg" :> 22) @@ ("maintenance" :> 28) @@ ("maintenance " :> 28) @@ ("n/a" :> 40) @@ ("prefilled" :> 4) @@ ("prefilled syringe" :> 4) @@ ("refill" :> 5) @@ ("syringe" :> 14)]) @@
    \* "(ballot box with check) UnoReady Pen 300 mg Maintenance Increase"
    ("R_uno_inc" :>
     [len |-> 42, paren_dose |-> "None", senso_word |-> FALSE,
      table_refills |-> "None", raw_12_or |-> "None", raw_num_refills |-> "None",
      completed_at |-> {}, marker |-> TRUE,
      first |-> ("300" :> 15) @@ ("300 mg" :> 15) @@ ("maintenance" :> 22) @@ ("maintenance " :> 22) @@ ("maintenance increase" :> 22) @@ ("pen" :> 11) @@ ("unoready" :> 2) @@ ("unoready pen" :> 2)]) @@
    \* "(heavy check mark) UnoReady Pen 300 mg Maintenance 5 refills"
    ("R_uno_m5" :>
     [len |-> 43, paren_dose |-> "None", senso_word |-> FALSE,
      table_refills |-> "None", raw_12_or |-> "None", raw_num_refills |-> "5",
      completed_at |-> {}, marker |-> TRUE,
      first |-> ("300" :> 15) @@ ("300 mg" :> 15) @@ ("maintenance" :> 22) @@ ("maintenance " :> 22) @@ ("pen" :> 11) @@ ("refill" :> 36) @@ ("refills" :> 36) @@ ("unoready" :> 2) @@ ("unoready pen" :> 2)]) @@
    \* "Prescriber signature"
    ("R_sig" :>
     [len |-> 20, paren_dose |-> "None", senso_word |-> FALSE,
      table_refills |-> "None", raw_12_or |-> "None", raw_num_refills |-> "None",
      completed_at |-> {}, marker |-> FALSE,
      first |-> ("prescriber signature" :> 0)])

\* kw in text
Has(t, kw) == kw \in DOMAIN t.first

\* A joined text (" ".join(parts)) is the sequence of its parts.
Join(ids) == [i \in 1..Len(ids) |-> Texts[ids[i]]]

JHas(J, kw) == \E i \in 1..Len(J) : Has(J[i], kw)

JHasAny(J, kws) == \E kw \in kws : JHas(J, kw)

RECURSIVE JOffset(_, _)
JOffset(J, k) == IF k <= 1 THEN 0 ELSE JOffset(J, k - 1) + J[k - 1].len + 1

Min(S) == CHOOSE x \in S : \A y \in S : x <= y

\* first regular-expression match over the joined text, feature by feature
FirstFeature(J, feature) ==
    IF \A i \in 1..Len(J) : J[i][feature] = None THEN None
    ELSE J[Min({i \in 1..Len(J) : J[i][feature] # None})][feature]

Take(s, n) == SubSeq(s, 1, IF Len(s) < n THEN Len(s) ELSE n)

(***************************************************************************)
(* The form: LINE blocks (document order) and SELECTION_ELEMENT blocks.    *)
(* Positions are thousandths of the page.                                  *)
(***************************************************************************)
Lines ==
    LET \* LINE blocks with page and bounding box, prescription_extractor.py 473-483
        Line(page, top, left, text) == [page |-> page, top |-> top, left |-> left, text |-> text]
    IN
    << Line(1, 180, 100, "H150"),
       Line(1, 200, 130, "S150"),
       Line(1, 200, 530, "L150"),
       Line(1, 240, 130, "Y150"),
       Line(1, 240, 530, "M150"),
       Line(1, 240, 800, "RF"),
       Line(1, 300, 130, "U300"),
       Line(1, 300, 530, "I300"),
       Line(1, 400, 130, "Y75"),
       Line(1, 400, 530, "L75"),
       Line(2, 500, 130, "A1"),
       Line(2, 700, 130, "X1") >>

\* the checkboxes of the form, in the order of the checkboxes dict
Boxes ==
    LET \* selected checkboxes and their SELECTION_ELEMENT blocks, prescription_extractor.py 453-465
        Box(id, page, top, left, has_block) ==
            [id |-> id, page |-> page, top |-> top, left |-> left, has_block |-> has_block]
    IN
    << Box("cb_S150", 1, 200, 100, TRUE),
       Box("cb_L150", 1, 200, 500, TRUE),
       Box("cb_Y150", 1, 240, 100, TRUE),
       Box("cb_M150", 1, 240, 500, TRUE),
       Box("cb_RF", 1, 240, 780, TRUE),
       Box("cb_U300", 1, 300, 100, TRUE),
       Box("cb_I300", 1, 300, 500, TRUE),
       Box("cb_Y75", 1, 400, 100, TRUE),
       Box("cb_L75", 1, 400, 500, TRUE),
       Box("cb_A1", 2, 500, 100, TRUE),
       Box("cb_X1", 2, 700, 100, TRUE),
       Box("cb_orphan", 1, 0, 0, FALSE) >>

(***************************************************************************)
(* _detect_from_checkboxes, second pass: the text near a checkbox          *)
(***************************************************************************)
nearby_tolerance == 30
same_row_tolerance == 20

\* list.sort(key = distance): a stable insertion sort
RECURSIVE InsertByDistance(_, _)
InsertByDistance(sorted, b) ==
    IF Len(sorted) = 0 THEN <<b>>
    ELSE IF sorted[Len(sorted)].distance <= b.distance THEN Append(sorted, b)
    ELSE Append(InsertByDistance(SubSeq(sorted, 1, Len(sorted) - 1), b), sorted[Len(sorted)])

RECURSIVE SortByDistance(_, _)
SortByDistance(blocks, n) ==
    IF n = 0 THEN <<>> ELSE InsertByDistance(SortByDistance(blocks, n - 1), blocks[n])

\* the text blocks within `tolerance` of the checkbox row, closest first
TextBlocksNear(cb, tolerance) ==
    LET \* abs(), prescription_extractor.py 485-486
        Abs(x) == IF x < 0 THEN -x ELSE x
    IN
    LET InRow(b) == b.page = cb.page /\ Abs(b.top - cb.top) < tolerance
        rows == SelectSeq(Lines, InRow)
        blocks == [i \in 1..Len(rows) |->
                      [text |-> rows[i].text,
                       distance |-> Abs(rows[i].left - cb.left),
                       left |-> rows[i].left]]
    IN  SortByDistance(blocks, Len(blocks))

nearby_text_blocks(cb) == TextBlocksNear(cb, nearby_tolerance)
same_row_text_blocks(cb) == TextBlocksNear(cb, same_row_tolerance)

TextsOf(blocks) == Join([i \in 1..Len(blocks) |-> blocks[i].text])

\* attestation / consent checkbox: skipped
IsSkipped(context) ==
    LET prescription_keywords ==
            {"sensoready", "unoready", "syringe", "prefilled", "loading dose", "maintenance",
             "inject", "150 mg", "300 mg", "75 mg", "cosentyx", "refills", "12 refills", "or __"}
        non_rx_keywords ==
            {"i have read and agree", "terms and conditions", "patient signature",
             "prescriber signature", "authorized representative signature",
             "consent is not required", "consent to", "hereby authorize", "by signing below"}
        has_prescription_keywords == JHasAny(context, prescription_keywords)
        has_non_rx_keywords == JHasAny(context, non_rx_keywords)
        has_refills_keyword == JHas(context, "refills") \/ JHas(context, "refill")
    IN  has_non_rx_keywords /\ ~has_prescription_keywords /\ ~has_refills_keyword

\* the dosage of a checkbox: the three closest blocks first, then the whole context
DosageOf(closest_3_text, context) ==
    LET dose_value == FirstFeature(closest_3_text, "paren_dose")
        from_pattern == IF dose_value = "75" THEN "75mg"
                        ELSE IF dose_value = "300" THEN "300mg"
                        ELSE IF dose_value = "150" THEN "150mg"
                        ELSE None
        dosage_from_closest ==
            IF JHas(closest_3_text, "(2x150") THEN "300mg"
            ELSE IF from_pattern # None THEN from_pattern
            ELSE IF JHas(closest_3_text, "75 mg") \/ JHas(closest_3_text, "75mg") THEN "75mg"
            ELSE IF JHas(closest_3_text, "300 mg") \/ JHas(closest_3_text, "300mg") THEN "300mg"
            ELSE IF JHas(closest_3_text, "150 mg") \/ JHas(closest_3_text, "150mg") THEN "150mg"
            ELSE None
    IN  IF dosage_from_closest # None THEN dosage_from_closest
        ELSE IF JHas(context, "(2x150") THEN "300mg"
        ELSE IF JHas(context, "75 mg") \/ JHas(context, "75mg") \/ JHas(context, "(1x75")
            THEN "75mg"
        ELSE IF JHas(context, "300 mg") \/ JHas(context, "300mg") \/ JHas(context, "(1x300")
            THEN "300mg"
        ELSE IF JHas(context, "150 mg") \/ JHas(context, "150mg") \/ JHas(context, "(1x150")
            THEN "150mg"
        ELSE IF JHas(context, "inject 75") THEN "75mg"
        ELSE IF JHas(context, "inject 300") THEN "300mg"
        ELSE IF JHas(context, "inject 150") THEN "150mg"
        ELSE None

\* dosage-based rules override the context
RefinePatientType(patient_type, dosage) ==
    IF dosage = "75mg" THEN "pediatric"
    ELSE IF dosage = "300mg" THEN "adult"
    ELSE patient_type

(***************************************************************************)
(* Device checkboxes (left < 0.35)                                         *)
(***************************************************************************)
device_left_limit == 350
dosing_left_limit == 700

\* len("loading dose already completed")
completed_phrase_len == 30

device_fallback_blocks == 10

\* the device of a checkbox: the closest text when it names exactly one device,
\* else the first of the ten closest blocks that names one
DeviceOf(closest_text, nearby) ==
    LET senso == JHas(closest_text, "sensoready")
        uno == JHas(closest_text, "unoready")
        syr == JHas(closest_text, "syringe")
        from_closest ==
            IF uno /\ ~senso /\ ~syr THEN "unoready_pen"
            ELSE IF senso /\ ~uno /\ ~syr THEN "sensoready_pen"
            ELSE IF (JHas(closest_text, "prefilled syringe")
                     \/ (JHas(closest_text, "prefilled") /\ syr)) /\ ~senso /\ ~uno
                THEN "syringe"
            ELSE IF syr /\ ~senso /\ ~uno THEN "syringe"
            ELSE None
        DeviceOfBlock(t) ==
            LET has_sensoready == Has(t, "sensoready")
                has_unoready == Has(t, "unoready")
                has_syringe == Has(t, "syringe")
            IN  IF Has(t, "unoready(r) pen") \/ Has(t, "unoready pen") THEN "unoready_pen"
                ELSE IF has_unoready /\ ~has_sensoready THEN "unoready_pen"
                ELSE IF Has(t, "sensoready(r) pen") \/ Has(t, "sensoready pen")
                    THEN "sensoready_pen"
                ELSE IF has_sensoready /\ ~has_unoready
                    THEN (IF t.senso_word THEN "sensoready_pen" ELSE None)
                ELSE IF Has(t, "prefilled syringe") THEN "syringe"
                ELSE IF Has(t, "prefilled") /\ has_syringe /\ ~has_sensoready /\ ~has_unoready
                    THEN "syringe"
                ELSE IF has_syringe /\ ~has_sensoready /\ ~has_unoready THEN "syringe"
                ELSE None
        first_10 == TextsOf(Take(nearby, device_fallback_blocks))
        matched == {i \in 1..Len(first_10) : DeviceOfBlock(first_10[i]) # None}
    IN  IF from_closest # None THEN from_closest
        ELSE IF matched = {} THEN None
        ELSE DeviceOfBlock(first_10[Min(matched)])

(***************************************************************************)
(* Dosing checkboxes (0.35 <= left < 0.70)                                 *)
(***************************************************************************)
\* the dose type of a checkbox: the closest text first, then the pattern that
\* comes first in the whole context
DoseTypeOf(closest_text, context) ==
    LET \* str.find, prescription_extractor.py 760-765
        JFind(J, kw) ==
            IF ~JHas(J, kw) THEN -1
            ELSE LET k == Min({i \in 1..Len(J) : Has(J[i], kw)})
                 IN  JOffset(J, k) + J[k].first[kw]
    IN
    LET from_closest ==
            IF JHas(closest_text, "loading dose: inject")
               \/ (JHas(closest_text, "loading dose:")
                   /\ ~JHas(closest_text, "already completed"))
                THEN "loading"
            ELSE IF JHas(closest_text, "then every 2 weeks")
                    \/ (JHas(closest_text, "every 2 weeks")
                        /\ ~JHas(closest_text, "every 4 weeks"))
                THEN "maintenance_increase"
            ELSE IF JHas(closest_text, "then every 4 weeks thereafter")
                    \/ JHas(closest_text, "every 4 weeks thereafter")
                    \/ JHas(closest_text, "every 4 weeks")
                THEN "maintenance"
            ELSE IF JHas(closest_text, "maintenance: inject")
                    \/ (JHas(closest_text, "maintenance:") /\ ~JHas(closest_text, "loading"))
                THEN "maintenance"
            ELSE None
        loading_patterns ==
            <<"loading dose: inject", "loading dose inject", "loading dose:", "loading dose ">>
        maintenance_patterns ==
            <<"maintenance: inject", "maintenance inject", "then every 2 weeks",
              "every 2 weeks", "then every 4 weeks thereafter", "every 4 weeks thereafter",
              "every 4 weeks", "maintenance:", "maintenance ">>
        context_len == IF Len(context) = 0 THEN 0
                       ELSE JOffset(context, Len(context)) + context[Len(context)].len
        \* "loading dose already completed" in context[max(0, pos-10) : pos+50]
        CompletedInWindow(pos) ==
            LET lo == IF pos - 10 < 0 THEN 0 ELSE pos - 10
                hi == IF pos + 50 < context_len THEN pos + 50 ELSE context_len
            IN  \E k \in 1..Len(context) : \E q \in context[k].completed_at :
                    /\ JOffset(context, k) + q >= lo
                    /\ JOffset(context, k) + q + completed_phrase_len <= hi
        usable == {i \in 1..Len(loading_patterns) :
                      /\ JHas(context, loading_patterns[i])
                      /\ ~CompletedInWindow(JFind(context, loading_patterns[i]))}
        loading_pos == IF usable = {} THEN -1 ELSE JFind(context, loading_patterns[Min(usable)])
        found == {i \in 1..Len(maintenance_patterns) : JHas(context, maintenance_patterns[i])}
        maintenance_pos == IF found = {} THEN -1
                           ELSE JFind(context, maintenance_patterns[Min(found)])
        maintenance_type ==
            IF found # {} /\ maintenance_patterns[Min(found)]
                               \in {"then every 2 weeks", "every 2 weeks"}
                THEN "maintenance_increase"
            ELSE "maintenance"
        from_context ==
            IF loading_pos # -1 /\ maintenance_pos # -1
                THEN (IF loading_pos < maintenance_pos THEN "loading" ELSE maintenance_type)
            ELSE IF loading_pos # -1 THEN "loading"
            ELSE IF maintenance_pos # -1 THEN maintenance_type
            ELSE None
    IN  IF from_closest # None THEN from_closest ELSE from_context

\* a variant that classifies a checkbox by the text next to it, wherever it stands
checkbox_info_by_text(cb) ==
    LET nearby == nearby_text_blocks(cb)
        context == TextsOf(nearby)
        closest_text == TextsOf(Take(nearby, 1))
        closest_3_text == TextsOf(Take(nearby, 3))
        pediatric_markers == {"pediatric", "wt<50", "wt <50", "wt>=50u", "wt >=50u", "wt<50kg"}
        from_context == IF JHasAny(context, pediatric_markers) THEN "pediatric" ELSE "adult"
        dosage == DosageOf(closest_3_text, context)
        patient_type == RefinePatientType(from_context, dosage)
        by_device == DeviceOf(closest_text, nearby)
        by_dose == DoseTypeOf(closest_text, context)
        form == IF cb.left < device_left_limit \/ by_dose = None THEN by_device ELSE None
        dose_type == IF form = None THEN by_dose ELSE None
        type == IF form # None THEN "device"
                ELSE IF dose_type # None THEN "dosing"
                ELSE None
    IN  [id |-> cb.id, top |-> cb.top, left |-> cb.left, skipped |-> IsSkipped(context),
         type |-> type, dosage |-> dosage, patient_type |-> patient_type,
         form |-> form, dose_type |-> dose_type]

(***************************************************************************)
(* checkbox_info of one selected checkbox that has a block                 *)
(***************************************************************************)
checkbox_info(cb) ==
    LET nearby == nearby_text_blocks(cb)
        context == TextsOf(nearby)
        closest_text == TextsOf(Take(nearby, 1))
        closest_3_text == TextsOf(Take(nearby, 3))
        pediatric_markers == {"pediatric", "wt<50", "wt <50", "wt>=50u", "wt >=50u", "wt<50kg"}
        from_context == IF JHasAny(context, pediatric_markers) THEN "pediatric" ELSE "adult"
        dosage == DosageOf(closest_3_text, context)
        patient_type == RefinePatientType(from_context, dosage)
        form == IF cb.left < device_left_limit THEN DeviceOf(closest_text, nearby) ELSE None
        dose_type == IF cb.left >= device_left_limit /\ cb.left < dosing_left_limit
                         THEN DoseTypeOf(closest_text, context) ELSE None
        type == IF form # None THEN "device"
                ELSE IF dose_type # None THEN "dosing"
                ELSE None
    IN  [id |-> cb.id, top |-> cb.top, left |-> cb.left, skipped |-> IsSkipped(context),
         type |-> type, dosage |-> dosage, patient_type |-> patient_type,
         form |-> form, dose_type |-> dose_type]

\* a variant that appends every analysed checkbox, classified or not
checkbox_data_keeping_unclassified(selected) ==
    LET Kept(cb) == cb.id \in selected /\ cb.has_block /\ ~checkbox_info(cb).skipped
        kept == SelectSeq(Boxes, Kept)
    IN  [i \in 1..Len(kept) |-> checkbox_info(kept[i])]

\* checkbox_data: the classified checkboxes among the selected ones, in dict order
checkbox_data(selected) ==
    LET \* "Only add if we successfully classified the checkbox"
        IsClassified(info) ==
            /\ ~info.skipped
            /\ info.type # None /\ info.dosage # None /\ info.patient_type # None
            /\ \/ info.type = "device" /\ info.form # None
               \/ info.type = "dosing" /\ info.dose_type # None
        Kept(cb) == cb.id \in selected /\ cb.has_block /\ IsClassified(checkbox_info(cb))
        kept == SelectSeq(Boxes, Kept)
    IN  [i \in 1..Len(kept) |-> checkbox_info(kept[i])]

(***************************************************************************)
(* _detect_from_checkboxes, first pass: refills from the table rows        *)
(***************************************************************************)
\* the refills entries of one table, a row at a time
RECURSIVE TableRefills(_, _, _)
TableRefills(table, table_idx, row_idx) ==
    LET \* table_patient_type, prescription_extractor.py 373-379
        table_patient_type(rows) ==
            IF Len(rows) = 0 THEN None
            ELSE LET header_text == Join(rows[1])
                 IN  IF JHas(header_text, "product information (adult)") THEN "adult"
                     ELSE IF JHas(header_text, "product information (pediatric)") THEN "pediatric"
                     ELSE None
        \* refills of a table row, prescription_extractor.py 420-448
        row_refills(row_text) ==
            LET handwritten_value == FirstFeature(row_text, "table_refills")
            IN  IF handwritten_value # None THEN "12 or " \o handwritten_value
                ELSE IF JHas(row_text, "12 refills") /\ ~JHas(row_text, "n/a") THEN "12 or 0"
                ELSE None
    IN
    LET row_text == Join(table[row_idx])
        table_type == table_patient_type(table)
        dosage == IF JHas(row_text, "(2x150") \/ JHas(row_text, "300 mg") THEN "300mg"
                  ELSE IF JHas(row_text, "75 mg") THEN "75mg"
                  ELSE IF JHas(row_text, "150 mg") THEN "150mg"
                  ELSE None
        pediatric_markers == {"pediatric", "wt<50", "wt <50", "wt>=50u", "wt >=50u"}
        from_row ==
            IF table_type # None THEN table_type
            ELSE IF JHasAny(row_text, pediatric_markers) THEN "pediatric"
            ELSE IF JHas(row_text, "cosentyx 150 mg") \/ JHas(row_text, "cosentyx 300 mg")
                THEN "adult"
            ELSE IF JHas(row_text, "cosentyx 75 mg") THEN "pediatric"
            ELSE None
        patient_type == IF dosage = "75mg" THEN "pediatric" ELSE from_row
        dose_type ==
            IF JHas(row_text, "maintenance increase")
               \/ (JHas(row_text, "every 2 weeks") /\ JHas(row_text, "maintenance"))
                THEN "maintenance_increase"
            ELSE IF JHas(row_text, "loading") /\ JHas(row_text, "loading dose:") THEN "loading"
            ELSE IF JHas(row_text, "maintenance") \/ JHas(row_text, "every 4 weeks")
                THEN "maintenance"
            ELSE None
        entry == [table_idx |-> table_idx, table_row |-> row_idx - 1,
                  refills |-> row_refills(row_text), patient_type |-> patient_type,
                  dosage |-> dosage, dose_type |-> dose_type]
    IN  IF row_idx > Len(table) THEN <<>>
        ELSE (IF entry.refills # None THEN <<entry>> ELSE <<>>)
             \o TableRefills(table, table_idx, row_idx + 1)

RECURSIVE refills_data(_, _)
refills_data(tables, table_idx) ==
    IF table_idx > Len(tables) THEN <<>>
    ELSE TableRefills(tables[table_idx], table_idx - 1, 1) \o refills_data(tables, table_idx + 1)

(***************************************************************************)
(* _detect_from_checkboxes, steps 2 and 3: groups and combinations         *)
(***************************************************************************)
\* the keys (patient_type, dosage) of the groups dict, in insertion order
RECURSIVE GroupKeys(_, _)
GroupKeys(data, n) ==
    IF n = 0 THEN <<>>
    ELSE LET before == GroupKeys(data, n - 1)
             group_key == <<data[n].patient_type, data[n].dosage>>
         IN  IF \E i \in 1..Len(before) : before[i] = group_key THEN before
             ELSE Append(before, group_key)

\* a variant that matches the refills entries on (patient_type, dosage) alone
matching_refills_by_group(refills, patient_type, dosage, dose_type) ==
    LET matches == {i \in 1..Len(refills) :
                       /\ refills[i].patient_type = patient_type
                       /\ refills[i].dosage = dosage}
    IN  IF matches = {} THEN None
        ELSE refills[Min(matches)].refills

\* the first refills entry whose triple matches, for maintenance doses only
matching_refills(refills, patient_type, dosage, dose_type) ==
    LET matches == {i \in 1..Len(refills) :
                       /\ refills[i].patient_type = patient_type
                       /\ refills[i].dosage = dosage
                       /\ refills[i].dose_type = dose_type}
    IN  IF dose_type \notin {"maintenance", "maintenance_increase"} THEN None
        ELSE IF matches = {} THEN None
        ELSE refills[Min(matches)].refills

\* a combination dict; refills_text = None stands for the absent key
Combination(dosage, patient_type, form, dose_type, refills_text) ==
    [dosage |-> dosage, patient_type |-> patient_type, form |-> form,
     dose_type |-> dose_type, refills_text |-> refills_text]

\* a variant of the nested loops that pairs the k-th device with the k-th dosing
GroupCombinations_paired(key, devices, dosings, refills) ==
    [n \in 1..Min({Len(devices), Len(dosings)}) |->
        LET found == matching_refills(refills, key[1], key[2], dosings[n].dose_type)
        IN  Combination(key[2], key[1], devices[n].form, dosings[n].dose_type,
                        IF Truthy(found) THEN found ELSE None)]

\* a variant that gives a device without a dosing the maintenance dose type
GroupCombinations_lone_device(key, devices, dosings, refills) ==
    IF Len(dosings) = 0
        THEN [n \in 1..Len(devices) |->
                 Combination(key[2], key[1], devices[n].form, "maintenance", None)]
    ELSE [n \in 1..(Len(devices) * Len(dosings)) |->
             LET device == devices[((n - 1) \div Len(dosings)) + 1]
                 dosing == dosings[((n - 1) % Len(dosings)) + 1]
                 found == matching_refills(refills, key[1], key[2], dosing.dose_type)
             IN  Combination(key[2], key[1], device.form, dosing.dose_type,
                             IF Truthy(found) THEN found ELSE None)]

\* for device in devices: for dosing in dosings
GroupCombinations(key, devices, dosings, refills) ==
    IF Len(devices) = 0 \/ Len(dosings) = 0 THEN <<>>
    ELSE [n \in 1..(Len(devices) * Len(dosings)) |->
            LET device == devices[((n - 1) \div Len(dosings)) + 1]
                dosing == dosings[((n - 1) % Len(dosings)) + 1]
                found == matching_refills(refills, key[1], key[2], dosing.dose_type)
            IN  Combination(key[2], key[1], device.form, dosing.dose_type,
                            IF Truthy(found) THEN found ELSE None)]

RECURSIVE CombinationsOfGroups(_, _, _, _)
CombinationsOfGroups(data, keys, k, refills) ==
    LET IsDevice(cb) == <<cb.patient_type, cb.dosage>> = keys[k] /\ cb.type = "device"
        IsDosing(cb) == <<cb.patient_type, cb.dosage>> = keys[k] /\ cb.type = "dosing"
    IN  IF k > Len(keys) THEN <<>>
        ELSE GroupCombinations(keys[k], SelectSeq(data, IsDevice),
                               SelectSeq(data, IsDosing), refills)
             \o CombinationsOfGroups(data, keys, k + 1, refills)

\* checkboxes: the set of selected checkbox ids; tables: the parsed tables
detect_from_checkboxes(selected, tables) ==
    IF Cardinality(selected) = 0 THEN <<>>
    ELSE LET data == checkbox_data(selected)
         IN  CombinationsOfGroups(data, GroupKeys(data, Len(data)), 1, refills_data(tables, 1))

(***************************************************************************)
(* Keyword helpers of the form-field and raw-text strategies               *)
(***************************************************************************)
extract_dosage_from_text(text) ==
    IF JHas(text, "150") THEN "150mg"
    ELSE IF JHas(text, "300") THEN "300mg"
    ELSE IF JHas(text, "75") THEN "75mg"
    ELSE None

extract_patient_type_from_text(text) ==
    IF JHas(text, "pediatric") \/ JHas(text, "wt <50") \/ JHas(text, "wt <")
       \/ JHas(text, "wt<50") THEN "pediatric"
    ELSE IF JHas(text, "wt >=50u") \/ JHas(text, "wt >=") \/ JHas(text, "wt>=50")
        THEN "pediatric"
    ELSE "adult"

extract_form_from_text(text) ==
    IF JHas(text, "sensoready") THEN "sensoready_pen"
    ELSE IF JHas(text, "unoready") THEN "unoready_pen"
    ELSE IF JHas(text, "prefilled syringe") \/ JHas(text, "prefilled") THEN "syringe"
    ELSE IF JHas(text, "syringe") /\ ~JHas(text, "prefilled") THEN "syringe"
    ELSE IF JHas(text, "pen") /\ ~JHas(text, "unoready") /\ ~JHas(text, "sensoready")
        THEN "sensoready_pen"
    ELSE None

extract_dose_type_from_text(text) ==
    IF JHas(text, "maintenance increase") THEN "maintenance_increase"
    ELSE IF JHas(text, "loading dose") \/ JHas(text, "loading") THEN "loading"
    ELSE IF JHas(text, "maintenance") THEN "maintenance"
    ELSE None

\* list.append(x) unless x is in the list already
AppendNew(list, x) ==
    IF \E i \in 1..Len(list) : list[i] = x THEN list ELSE Append(list, x)

(***************************************************************************)
(* _detect_from_forms.  A form field is (name, value); the value is a      *)
(* string or a dict with the keys value / selected / refills.              *)
(***************************************************************************)
FieldIsSelected(f) ==
    LET \* str(field_value).upper() on the values of the form fields
        upper == IF f.value \in {"SELECTED", "Selected", "selected"} THEN "SELECTED"
                 ELSE IF f.value = "John" THEN "JOHN"
                 ELSE f.value
    IN  IF f.is_dict THEN f.value = "SELECTED" \/ f.selected = "True"
        ELSE upper = "SELECTED"

FieldCombination(f) ==
    LET field_name_lower == Join(<<f.name>>)
        refills_text == IF f.is_dict THEN f.refills ELSE None
    IN  Combination(extract_dosage_from_text(field_name_lower),
                    extract_patient_type_from_text(field_name_lower),
                    extract_form_from_text(field_name_lower),
                    extract_dose_type_from_text(field_name_lower),
                    IF Truthy(refills_text) THEN refills_text ELSE None)

IsComplete(c) == c.dosage # None /\ c.form # None /\ c.dose_type # None

RECURSIVE detect_from_forms(_, _)
detect_from_forms(forms, n) ==
    IF n = 0 THEN <<>>
    ELSE LET before == detect_from_forms(forms, n - 1)
             c == FieldCombination(forms[n])
         IN  IF FieldIsSelected(forms[n]) /\ IsComplete(c) THEN AppendNew(before, c)
             ELSE before

(***************************************************************************)
(* _detect_from_raw_text.  raw_text.split('\n') is the sequence of lines.  *)
(***************************************************************************)
\* the combination read around line i: lines[max(0, i-1) : i+3]
LineCombination(lines, i) ==
    LET \* _extract_refills_text, prescription_extractor.py 1038-1073
        extract_refills_text(text) ==
            IF FirstFeature(text, "raw_12_or") # None
                THEN "12 or " \o FirstFeature(text, "raw_12_or")
            ELSE IF JHas(text, "n/a") THEN "N/A"
            ELSE FirstFeature(text, "raw_num_refills")
    IN
    LET context_lines == SubSeq(lines, IF i - 1 < 1 THEN 1 ELSE i - 1,
                                IF i + 2 > Len(lines) THEN Len(lines) ELSE i + 2)
        context == Join(context_lines)
        refills_text == extract_refills_text(context)
    IN  Combination(extract_dosage_from_text(context),
                    extract_patient_type_from_text(context),
                    extract_form_from_text(context),
                    extract_dose_type_from_text(context),
                    IF Truthy(refills_text) THEN refills_text ELSE None)

RECURSIVE detect_from_raw_text(_, _)
detect_from_raw_text(lines, n) ==
    IF n = 0 THEN <<>>
    ELSE LET before == detect_from_raw_text(lines, n - 1)
             c == LineCombination(lines, n)
         IN  IF Texts[lines[n]].marker /\ IsComplete(c) THEN AppendNew(before, c)
             ELSE before

default_combination == Combination("150mg", "adult", "sensoready_pen", "maintenance", None)

(***************************************************************************)
(* DOSING_INFO and _create_prescription                                    *)
(***************************************************************************)
DOSING_INFO ==
    LET Info(sig, quantity, refills) == [sig |-> sig, quantity |-> quantity, refills |-> refills]
        loading_150 == "Inject 150 mg subcutaneously on Weeks 0, 1, 2, 3"
        maintenance_150 == "Inject 150 mg subcutaneously on Week 4, then every 4 weeks thereafter"
        loading_300 == "Inject 300 mg subcutaneously on Weeks 0, 1, 2, 3"
        maintenance_300 == "Inject 300 mg subcutaneously on Week 4, then every 4 weeks thereafter"
        increase_300 == "Inject 300 mg subcutaneously every 2 weeks (For patients currently taking COSENTYX every 4 weeks as per label. Loading dose already completed.)"
        loading_75 == "Inject 75 mg subcutaneously on Weeks 0, 1, 2, 3"
        maintenance_75 == "Inject 75 mg subcutaneously on Week 4, then every 4 weeks thereafter"
        schedule_150 ==
            [loading |-> Info(loading_150, "4", "N/A"),
             maintenance |-> Info(maintenance_150, "12", "12 or 0")]
    IN  [ d150mg |->
            [adult |-> [sensoready_pen |-> schedule_150, syringe |-> schedule_150],
             pediatric |-> [sensoready_pen |-> schedule_150, syringe |-> schedule_150]],
          d300mg |->
            [adult |->
                [unoready_pen |->
                    [loading |-> Info(loading_300, "4", "N/A"),
                     maintenance |-> Info(maintenance_300, "12", "12 or 0"),
                     maintenance_increase |-> Info(increase_300, "24", "12 or 0")],
                 sensoready_pen |->
                    [loading |-> Info(loading_300, "8", "N/A"),
                     maintenance |-> Info(maintenance_300, "12", "12 or 0"),
                     maintenance_increase |-> Info(increase_300, "24", "12 or 0")],
                 syringe |->
                    [loading |-> Info(loading_300, "8", "N/A"),
                     maintenance |-> Info(maintenance_300, "24", "12 or 0"),
                     maintenance_increase |-> Info(increase_300, "24", "12 or 0")]]],
          d75mg |->
            [pediatric |->
                [syringe |->
                    [loading |-> Info(loading_75, "4", "N/A"),
                     maintenance |-> Info(maintenance_75, "12", "12 or 0")]]] ]

\* dict.get(key, default)
GetOr(d, key, default) == IF key \in DOMAIN d THEN d[key] ELSE default

\* DOSING_INFO.get(dosage, {}).get(patient_type, {}).get(form, {}).get(dose_type, {})
Lookup(dosage, patient_type, form, dose_type) ==
    LET empty == [k \in {} |-> k]
        Get(d, key) == GetOr(d, key, empty)
    IN  Get(Get(Get(Get(DOSING_INFO, "d" \o dosage), patient_type), form), dose_type)

\* a variant of the refills choice that asks the lookup table before the defaults
refills_value_table_first(refills_text, dose_type, info) ==
    IF Truthy(refills_text) THEN refills_text
    ELSE IF "refills" \in DOMAIN info THEN info["refills"]
    ELSE IF dose_type = "loading" THEN "0"
    ELSE "12 or 0"

refills_value(refills_text, dose_type, info) ==
    IF Truthy(refills_text) THEN refills_text
    ELSE IF dose_type = "loading" THEN "0"
    ELSE IF dose_type \in {"maintenance", "maintenance_increase"} THEN "12 or 0"
    ELSE GetOr(info, "refills", "12")

create_prescription(combo) ==
    LET \* dosing_info with the generic pen fallback, prescription_extractor.py 1140-1145
        dosing_info(dosage, patient_type, form, dose_type) ==
            LET direct == Lookup(dosage, patient_type, form, dose_type)
            IN  IF DOMAIN direct = {} /\ form \in {"pen", "sensoready_pen", "unoready_pen"}
                    THEN Lookup(dosage, patient_type, "sensoready_pen", dose_type)
                ELSE direct
        \* form_display, prescription_extractor.py 1150-1158
        form_display(form) ==
            IF form = "sensoready_pen" THEN "Sensoready Pen"
            ELSE IF form = "unoready_pen" THEN "UnoReady Pen"
            ELSE IF form = "syringe" THEN "Prefilled Syringe"
            ELSE IF form = "pen" THEN "Pen"
            ELSE form
    IN
    LET info == dosing_info(combo.dosage, combo.patient_type, combo.form, combo.dose_type)
        from_form == Truthy(combo.refills_text)
        \* dose_type.replace("_", " ").title()
        dose_type_display ==
            IF combo.dose_type = "loading" THEN "Loading"
            ELSE IF combo.dose_type = "maintenance" THEN "Maintenance"
            ELSE IF combo.dose_type = "maintenance_increase" THEN "Maintenance Increase"
            ELSE IF combo.dose_type = "induction" THEN "Induction"
            ELSE combo.dose_type
        \* patient_type.capitalize()
        patient_type_display ==
            IF combo.patient_type = "adult" THEN "Adult"
            ELSE IF combo.patient_type = "pediatric" THEN "Pediatric"
            ELSE combo.patient_type
    IN  [product |-> Field("COSENTYX " \o combo.dosage, 95, TRUE),
         dosage |-> Field(combo.dosage, 95, TRUE),
         form |-> Field(form_display(combo.form), 95, TRUE),
         dose_type |-> Field(dose_type_display, 95, TRUE),
         patient_type |-> Field(patient_type_display, 95, TRUE),
         quantity |-> Field(GetOr(info, "quantity", "12"), 100, TRUE),
         sig |-> Field(GetOr(info, "sig", "Use as directed"), 100, TRUE),
         refills |-> Field(refills_value(combo.refills_text, combo.dose_type, info),
                           IF from_form THEN 100 ELSE 90, TRUE)]

\* a variant that validates quantity and sig only when the lookup table has them
CreatePrescriptions_validated_by_lookup(combos) ==
    [i \in 1..Len(combos) |->
        LET rx == create_prescription(combos[i])
            found == rx.sig.value # "Use as directed"
        IN  [rx EXCEPT !.quantity.validated = found, !.sig.validated = found]]

CreatePrescriptions(combos) == [i \in 1..Len(combos) |-> create_prescription(combos[i])]

(***************************************************************************)
(* Parsed layouts given to PrescriptionExtractor.extract                   *)
(***************************************************************************)
MaxSelected == 4    \* selected checkboxes on one form

TableInputs ==
    [ none |-> <<>>,
      adult |-> << << <<"TH_A">>,
                      <<"TC150", "TM4", "TR3">>,
                      <<"TC300", "TMI", "TRG">>,
                      <<"TC150", "TLD", "TNA">> >> >>,
      mixed |-> << << <<"TM4", "TR3">>,
                      <<"TC150", "TLD", "TR3">>,
                      <<"TC150", "TMI", "TRG">>,
                      <<"TC150", "TM4", "TR3">> >> >> ]

FormInputs ==
    LET \* form field values: str or dict, prescription_extractor.py 956-962
        StrValue(name, s) ==
            [name |-> name, is_dict |-> FALSE, value |-> s, selected |-> None, refills |-> None]
        \* form field values: str or dict, prescription_extractor.py 956-962
        DictValue(name, v, sel, refills) ==
            [name |-> name, is_dict |-> TRUE, value |-> v, selected |-> sel, refills |-> refills]
    IN
    [ none |-> <<>>,
      strings |-> << StrValue("F_name", "John"),
                     StrValue("F_150_pen_load", "SELECTED"),
                     StrValue("F_senso", "SELECTED"),
                     StrValue("F_75_syr_maint", "selected") >>,
      incomplete |-> << StrValue("F_senso", "SELECTED"), StrValue("F_name", "John") >>,
      dicts |-> << DictValue("F_75_syr_load", "SELECTED", None, "12 or 3"),
                   DictValue("F_300_uno_inc", None, "True", None),
                   DictValue("F_150_pen_load", "NOT_SELECTED", "False", None) >> ]

RawTextInputs ==
    [ empty |-> <<"R_empty">>,
      plain |-> <<"R_plain", "R_sig">>,
      marked |-> <<"R_senso150", "R_load_r3", "R_sig", "R_syr75">>,
      twice |-> <<"R_uno_inc", "R_uno_m5">> ]

Layouts ==
    LET \* selected checkboxes and their SELECTION_ELEMENT blocks, prescription_extractor.py 453-465
        BoxIds == {Boxes[i].id : i \in 1..Len(Boxes)}
    IN
    [checkboxes : {s \in SUBSET BoxIds : Cardinality(s) <= MaxSelected},
     tables : DOMAIN TableInputs,
     forms : DOMAIN FormInputs,
     raw_text : DOMAIN RawTextInputs]

NoLayout == [checkboxes |-> {}, tables |-> "none", forms |-> "none", raw_text |-> "empty"]

FromCheckboxes(td) == detect_from_checkboxes(td.checkboxes, TableInputs[td.tables])
FromForms(td) == detect_from_forms(FormInputs[td.forms], Len(FormInputs[td.forms]))
FromRawText(td) ==
    detect_from_raw_text(RawTextInputs[td.raw_text], Len(RawTextInputs[td.raw_text]))

(***************************************************************************)
(* _detect_checked_combinations, statement by statement                    *)
(***************************************************************************)
\* a variant in which every strategy runs, whatever was found before
not_combinations_always(combos) == TRUE

\* "if not combinations": a fallback strategy runs only on an empty list
not_combinations(combos) == Len(combos) = 0

\* combinations.extend(found)
Strategy1(td, combos) == combos \o FromCheckboxes(td)

Strategy2(td, combos) ==
    IF not_combinations(combos) THEN combos \o FromForms(td) ELSE combos

Strategy3(td, combos) ==
    IF not_combinations(combos) THEN combos \o FromRawText(td) ELSE combos

\* a variant without the hard-coded default
StrategyDefault_never(combos) == combos

StrategyDefault(combos) ==
    IF not_combinations(combos) THEN Append(combos, default_combination) ELSE combos

detect_checked_combinations(td) ==
    StrategyDefault(Strategy3(td, Strategy2(td, Strategy1(td, <<>>))))

\* PrescriptionExtractor.extract: the prescriptions of the returned PrescriptionInfo
extract(td) == CreatePrescriptions(detect_checked_combinations(td))

\* the strategies that added something, for the record
Contributed(before, after, name, log) == IF after # before THEN Append(log, name) ELSE log

PipelineIdle ==
    /\ result = NoResult
    /\ returned = NoResult
    /\ raised = FALSE
    /\ failed_step = None
    /\ duplicate_signatures = {}
    /\ docs = 0

ExtractIdle ==
    /\ textract_data = NoLayout
    /\ combinations = <<>>
    /\ contributed = <<>>
    /\ prescriptions = <<>>

pipeline_vars == <<result, returned, raised, failed_step, duplicate_signatures, docs>>
extract_vars == <<textract_data, combinations, contributed, prescriptions>>
service_vars == <<request, response, threads, history, bucket>>

\* no Bedrock call, no concurrent caller, no earlier extraction
ServiceIdle ==
    /\ bucket = {}
    /\ request = None
    /\ response = None
    /\ threads = <<>>
    /\ history = <<>>

InitExtract ==
    /\ pc = "checkboxes"
    /\ textract_data \in Layouts
    /\ combinations = <<>>
    /\ contributed = <<>>
    /\ prescriptions = <<>>
    /\ PipelineIdle
    /\ ServiceIdle

TryCheckboxes ==
    /\ pc = "checkboxes"
    /\ combinations' = Strategy1(textract_data, combinations)
    /\ contributed' = Contributed(combinations, combinations', "checkboxes", contributed)
    /\ pc' = "forms"
    /\ UNCHANGED <<textract_data, prescriptions, pipeline_vars>>
    /\ UNCHANGED service_vars

TryForms ==
    /\ pc = "forms"
    /\ combinations' = Strategy2(textract_data, combinations)
    /\ contributed' = Contributed(combinations, combinations', "forms", contributed)
    /\ pc' = "raw_text"
    /\ UNCHANGED <<textract_data, prescriptions, pipeline_vars>>
    /\ UNCHANGED service_vars

TryRawText ==
    /\ pc = "raw_text"
    /\ combinations' = Strategy3(textract_data, combinations)
    /\ contributed' = Contributed(combinations, combinations', "raw_text", contributed)
    /\ pc' = "default"
    /\ UNCHANGED <<textract_data, prescriptions, pipeline_vars>>
    /\ UNCHANGED service_vars

UseDefault ==
    /\ pc = "default"
    /\ combinations' = StrategyDefault(combinations)
    /\ contributed' = Contributed(combinations, combinations', "default", contributed)
    /\ pc' = "create"
    /\ UNCHANGED <<textract_data, prescriptions, pipeline_vars>>
    /\ UNCHANGED service_vars

CreateAll ==
    /\ pc = "create"
    /\ prescriptions' = CreatePrescriptions(combinations)
    /\ pc' = "extracted"
    /\ UNCHANGED <<textract_data, combinations, contributed, pipeline_vars>>
    /\ UNCHANGED service_vars

NextExtract == TryCheckboxes \/ TryForms \/ TryRawText \/ UseDefault \/ CreateAll

SpecExtract == InitExtract /\ [][NextExtract]_vars


(***************************************************************************)
(* _create_prescription on single combinations                             *)
(***************************************************************************)
CombinationInputs ==
    {Combination(dosage, patient_type, form, dose_type, refills_text) :
        dosage \in {"150mg", "300mg", "75mg"},
        patient_type \in {"adult", "pediatric"},
        form \in {"sensoready_pen", "unoready_pen", "syringe", "pen"},
        dose_type \in {"loading", "maintenance", "maintenance_increase", "induction"},
        refills_text \in {None, "", "12 or 3", "N/A"}}

InitCreate ==
    /\ pc = "create"
    /\ combinations \in {<<c>> : c \in CombinationInputs}
    /\ textract_data = NoLayout
    /\ contributed = <<>>
    /\ prescriptions = <<>>
    /\ PipelineIdle
    /\ ServiceIdle

NextCreate == CreateAll

SpecCreate == InitCreate /\ [][NextCreate]_vars

(***************************************************************************)
(* Hand-built results given to determine_routing and apply_routing_rules   *)
(***************************************************************************)
WithField(rec, name, f) == [rec EXCEPT ![name] = f]

GoodPatient == [f \in PatientFields |-> Good]
GoodPrescriber == [f \in PrescriberFields |-> Good]
GoodAttestation == [signature_present |-> TRUE, name |-> Good, date |-> Good]

RxContainers ==
    LET \* SinglePrescription, prescription.py 23-45
        SinglePrescription ==
            [f \in {"product", "dosage", "form", "dose_type", "patient_type",
                    "quantity", "sig", "refills"} |-> DefaultField]
        \* hand-built ExtractionResult (test_routing_decision_logic), test_integration.py 143-179
        GoodRx == create_prescription(default_combination)
        \* hand-built ExtractionResult (test_routing_decision_logic), test_integration.py 143-179
        RxShapes == {GoodRx, SinglePrescription, WithField(GoodRx, "dosage", Low),
                     WithField(GoodRx, "sig", Bad)}
    IN
                UNION {[1..n -> RxShapes] : n \in 0..MaxRx}

InitRouting ==
    LET \* hand-built ExtractionResult (test_routing_decision_logic), test_integration.py 143-179
        PatientShapes ==
            {GoodPatient, PatientInfo, WithField(GoodPatient, "phone", Low)}
            \cup {WithField(GoodPatient, f, Bad) : f \in PatientFields}
        \* hand-built ExtractionResult (test_routing_decision_logic), test_integration.py 143-179
        PrescriberShapes ==
            {GoodPrescriber, WithField(GoodPrescriber, "npi", Low),
             WithField(WithField(GoodPrescriber, "phone", Bad), "fax", Bad)}
            \cup {WithField(GoodPrescriber, f, Bad) : f \in PrescriberFields}
        \* hand-built ExtractionResult (test_routing_decision_logic), test_integration.py 143-179
        AttestationShapes ==
            {GoodAttestation, AttestationInfo,
             [GoodAttestation EXCEPT !.name = Bad], [GoodAttestation EXCEPT !.date = Bad]}
    IN
    /\ pc = "built"
    /\ \E document_type \in {"cosentyx_start_form", "ema_start_form", "other", "unknown"},
          patient \in PatientShapes,
          prescriber \in PrescriberShapes, prescription \in RxContainers,
          attestation \in AttestationShapes :
            result = [ExtractionResult EXCEPT
                         !.document_type = document_type,
                         !.patient = patient,
                         !.prescriber = prescriber,
                         !.prescription = prescription,
                         !.attestation = attestation]
    /\ returned = NoResult
    /\ raised = FALSE
    /\ failed_step = None
    /\ duplicate_signatures = {}
    /\ docs = 0
    /\ ExtractIdle
    /\ ServiceIdle

DetermineRouting ==
    /\ pc = "built"
    /\ result' = determine_routing(result)
    /\ pc' = "routed"
    /\ UNCHANGED <<returned, raised, failed_step, duplicate_signatures, docs, extract_vars>>
    /\ UNCHANGED service_vars

ApplyRoutingRules ==
    /\ pc = "built"
    /\ result' = apply_routing_rules(result)
    /\ pc' = "ruled"
    /\ UNCHANGED <<returned, raised, failed_step, duplicate_signatures, docs, extract_vars>>
    /\ UNCHANGED service_vars

NextRouting == DetermineRouting \/ ApplyRoutingRules

SpecRouting == InitRouting /\ [][NextRouting]_vars

(***************************************************************************)
(* CosentyxFormProcessor.process_document                                  *)
(***************************************************************************)
PatientOutputs ==
    {GoodPatient, WithField(GoodPatient, "dob", Field("w", 90, TRUE)),
     WithField(GoodPatient, "dob", Bad), PatientInfo}

PrescriberOutputs == {GoodPrescriber, WithField(GoodPrescriber, "npi", Bad)}

AttestationOutputs == {GoodAttestation, AttestationInfo}

PipelineLayouts ==
    {[checkboxes |-> {"cb_S150", "cb_L150"}, tables |-> "none",
      forms |-> "none", raw_text |-> "plain"],
     [checkboxes |-> {"cb_U300", "cb_I300"}, tables |-> "adult",
      forms |-> "none", raw_text |-> "plain"],
     [checkboxes |-> {}, tables |-> "none", forms |-> "dicts", raw_text |-> "empty"],
     [checkboxes |-> {}, tables |-> "none", forms |-> "none", raw_text |-> "marked"],
     NoLayout}

\* a variant in which the try block opens after the OCR call
InTry_after_ocr(step) == step # "ocr"

\* the try block encloses every step
InTry(step) == TRUE

\* a variant of the except clause that leaves the routing decision at its defaults
error_result_without_routing(e) ==
    [ExtractionResult EXCEPT
        !.document_type = "error",
        !.validation_status = "failed",
        !.validation_errors = Append(@, "Processing error: " \o e)]

\* the result built by the except clause
error_result(e) ==
    [ExtractionResult EXCEPT
        !.document_type = "error",
        !.validation_status = "failed",
        !.validation_errors = Append(@, "Processing error: " \o e),
        !.routing.action = "manual_review",
        !.routing.manual_review_required = TRUE,
        !.routing.review_reason = "Processing error: " \o e]

\* a variant of check_duplicate that never stores the signature
check_duplicate_without_add(r, signatures) ==
    [is_duplicate |-> CombinedSignature(r) \in signatures,
     signature |-> CombinedSignature(r),
     signatures |-> signatures]

\* BusinessRules.check_duplicate: (is_duplicate, signature) and the new set
check_duplicate(r, signatures) ==
    LET combined_sig == CombinedSignature(r)
    IN  IF combined_sig \in signatures
            THEN [is_duplicate |-> TRUE, signature |-> combined_sig,
                  signatures |-> signatures]
        ELSE [is_duplicate |-> FALSE, signature |-> combined_sig,
              signatures |-> signatures \cup {combined_sig}]

Init ==
    /\ pc = "idle"
    /\ PipelineIdle
    /\ ExtractIdle
    /\ ServiceIdle

Begin ==
    /\ pc = "idle"
    /\ docs < MaxDocs
    /\ pc' = "ocr"
    /\ result' = NoResult
    /\ returned' = NoResult
    /\ failed_step' = None
    /\ textract_data' = NoLayout
    /\ UNCHANGED <<raised, duplicate_signatures, docs, combinations, contributed,
                   prescriptions>>
    /\ UNCHANGED service_vars

AnalyzeDocument ==
    /\ pc = "ocr"
    /\ pc' = "parse"
    /\ UNCHANGED <<pipeline_vars, extract_vars>>
    /\ UNCHANGED service_vars

ParseResponse ==
    /\ pc = "parse"
    /\ textract_data' \in PipelineLayouts
    /\ pc' = "classify"
    /\ UNCHANGED <<pipeline_vars, combinations, contributed, prescriptions>>
    /\ UNCHANGED service_vars

\* classify_document returned what the model answered
Classify ==
    LET \* BedrockClassifier.classify_document, bedrock_classifier.py 21-46
        Classifications ==
            {<<"cosentyx_start_form", 95>>, <<"ema_start_form", 80>>, <<"other", 90>>, <<"other", 0>>}
    IN
    /\ pc = "classify"
    /\ \E c \in Classifications :
        result' = [ExtractionResult EXCEPT
                      !.document_type = c[1], !.classification_confidence = c[2]]
    /\ pc' = "patient"
    /\ UNCHANGED <<returned, raised, failed_step, duplicate_signatures, docs, extract_vars>>
    /\ UNCHANGED service_vars

\* the call or the parsing of its answer failed inside classify_document
ClassifyFails ==
    /\ pc = "classify"
    /\ result' = [ExtractionResult EXCEPT
                     !.document_type = "other", !.classification_confidence = 0]
    /\ failed_step' = "classify"
    /\ pc' = "patient"
    /\ UNCHANGED <<returned, raised, duplicate_signatures, docs, extract_vars>>
    /\ UNCHANGED service_vars

ExtractPatient ==
    /\ pc = "patient"
    /\ \E p \in PatientOutputs : result' = [result EXCEPT !.patient = p]
    /\ pc' = "prescriber"
    /\ UNCHANGED <<returned, raised, failed_step, duplicate_signatures, docs, extract_vars>>
    /\ UNCHANGED service_vars

ExtractPrescriber ==
    /\ pc = "prescriber"
    /\ \E p \in PrescriberOutputs : result' = [result EXCEPT !.prescriber = p]
    /\ pc' = "prescription"
    /\ UNCHANGED <<returned, raised, failed_step, duplicate_signatures, docs, extract_vars>>
    /\ UNCHANGED service_vars

ExtractPrescription ==
    /\ pc = "prescription"
    /\ result' = [result EXCEPT !.prescription = extract(textract_data)]
    /\ pc' = "attestation"
    /\ UNCHANGED <<returned, raised, failed_step, duplicate_signatures, docs, extract_vars>>
    /\ UNCHANGED service_vars

ExtractAttestation ==
    /\ pc = "attestation"
    /\ \E a \in AttestationOutputs : result' = [result EXCEPT !.attestation = a]
    /\ pc' = "rules"
    /\ UNCHANGED <<returned, raised, failed_step, duplicate_signatures, docs, extract_vars>>
    /\ UNCHANGED service_vars

ApplyRules ==
    /\ pc = "rules"
    /\ result' = apply_routing_rules(result)
    /\ pc' = "duplicate"
    /\ UNCHANGED <<returned, raised, failed_step, duplicate_signatures, docs, extract_vars>>
    /\ UNCHANGED service_vars

\* a variant of step 5 that sends a detected duplicate to manual review
CheckDuplicate_rerouting ==
    /\ pc = "duplicate"
    /\ LET checked == check_duplicate(result, duplicate_signatures)
       IN  /\ duplicate_signatures' = checked.signatures
           /\ result' = IF checked.is_duplicate
                            THEN [result EXCEPT
                                     !.warnings =
                                         Append(@, [kind |-> "Potential duplicate submission",
                                                    signature |-> checked.signature]),
                                     !.routing.action = "manual_review",
                                     !.routing.manual_review_required = TRUE]
                        ELSE result
    /\ pc' = "return"
    /\ UNCHANGED <<returned, raised, failed_step, docs, extract_vars>>
    /\ UNCHANGED service_vars

CheckDuplicate ==
    /\ pc = "duplicate"
    /\ LET checked == check_duplicate(result, duplicate_signatures)
           enable_duplicate_check == TRUE   \* config/settings.py 33
       IN  IF enable_duplicate_check
               THEN /\ duplicate_signatures' = checked.signatures
                    /\ result' = IF checked.is_duplicate
                                     THEN [result EXCEPT !.warnings =
                                              Append(@, [kind |-> "Potential duplicate submission",
                                                         signature |-> checked.signature])]
                                 ELSE result
           ELSE UNCHANGED <<result, duplicate_signatures>>
    /\ pc' = "return"
    /\ UNCHANGED <<returned, raised, failed_step, docs, extract_vars>>
    /\ UNCHANGED service_vars

Return ==
    /\ pc = "return"
    /\ returned' = result
    /\ result' = NoResult
    /\ pc' = "idle"
    /\ docs' = docs + 1
    /\ UNCHANGED <<raised, failed_step, duplicate_signatures, extract_vars>>
    /\ UNCHANGED service_vars

\* a step raises: the except clause builds the error result, if the step is in the try
StepFails ==
    LET \* str(e) of the caught exception, processor.py 118-119
        Errors == {"", "timeout"}
        \* try block of process_document, processor.py 56-118
        RaisingSteps ==
            {"ocr", "parse", "patient", "prescriber", "prescription", "attestation",
             "rules", "duplicate"}
    IN
    /\ pc \in RaisingSteps
    /\ \E e \in Errors :
        IF InTry(pc)
            THEN returned' = error_result(e) /\ raised' = FALSE
        ELSE returned' = NoResult /\ raised' = TRUE
    /\ failed_step' = pc
    /\ result' = NoResult
    /\ pc' = "idle"
    /\ docs' = docs + 1
    /\ UNCHANGED <<duplicate_signatures, extract_vars>>
    /\ UNCHANGED service_vars

Next ==
    \/ Begin
    \/ AnalyzeDocument
    \/ ParseResponse
    \/ Classify
    \/ ClassifyFails
    \/ ExtractPatient
    \/ ExtractPrescriber
    \/ ExtractPrescription
    \/ ExtractAttestation
    \/ ApplyRules
    \/ CheckDuplicate
    \/ Return
    \/ StepFails

Spec == Init /\ [][Next]_vars


(***************************************************************************)
(* Properties                                                              *)
(***************************************************************************)

\* C1 (SpecRouting): determine_routing decides by the four validity flags in
\* priority order: patient invalid -> failed / manual_review / no create flag;
\* else prescriber invalid or no valid prescription -> partial /
\* create_patient_only / only create_patient_profile; else attestation invalid
\* -> partial / manual_review / all three create flags and a reason that names
\* the attestation; else complete / create_full_profile / all three flags and
\* no manual review.  After the evaluation the status is never pending.
C1_RoutingPriority ==
    pc = "routed" =>
        LET patient_valid == PatientIsValid(result.patient)
            prescriber_valid == PrescriberIsValid(result.prescriber)
            prescription_valid == PrescriptionInfoIsValid(result.prescription)
            attestation_valid == AttestationIsValid(result.attestation)
            routing == result.routing
            flags == <<routing.create_patient_profile, routing.create_prescriber_profile,
                       routing.create_prescription>>
        IN  /\ result.validation_status # "pending"
            /\ ~patient_valid =>
                /\ result.validation_status = "failed"
                /\ routing.action = "manual_review"
                /\ flags = <<FALSE, FALSE, FALSE>>
            /\ (patient_valid /\ (~prescriber_valid \/ ~prescription_valid)) =>
                /\ result.validation_status = "partial"
                /\ routing.action = "create_patient_only"
                /\ flags = <<TRUE, FALSE, FALSE>>
            /\ (patient_valid /\ prescriber_valid /\ prescription_valid
                    /\ ~attestation_valid) =>
                /\ result.validation_status = "partial"
                /\ routing.action = "manual_review"
                /\ flags = <<TRUE, TRUE, TRUE>>
                /\ routing.review_reason = "Missing or invalid attestation"
            /\ (patient_valid /\ prescriber_valid /\ prescription_valid
                    /\ attestation_valid) =>
                /\ result.validation_status = "complete"
                /\ routing.action = "create_full_profile"
                /\ flags = <<TRUE, TRUE, TRUE>>
                /\ ~routing.manual_review_required

\* the attestation-missing scenario has been routed
C1_Witness ==
    /\ pc = "routed"
    /\ PatientIsValid(result.patient)
    /\ PrescriberIsValid(result.prescriber)
    /\ PrescriptionInfoIsValid(result.prescription)
    /\ Len(result.prescription) = 2
    /\ ~SinglePrescriptionIsValid(result.prescription[1])
    /\ ~AttestationIsValid(result.attestation)
    /\ result.routing.action = "manual_review"
    /\ result.validation_status = "partial"

\* C2 (Spec): every result returned by process_document with validation_status
\* failed requires manual review and carries a non-empty review reason.
C2_FailedNeedsReview ==
    (returned.document_type # "none" /\ returned.validation_status = "failed") =>
        /\ returned.routing.manual_review_required
        /\ returned.routing.review_reason # None
        /\ returned.routing.review_reason # ""

\* a document of an acceptable type with an invalid patient has been returned
C2_Witness ==
    /\ pc = "idle"
    /\ returned.document_type = "cosentyx_start_form"
    /\ returned.validation_status = "failed"
    /\ returned.routing.review_reason = "Missing or invalid patient information"

\* C3 as stated (Spec): no exception escapes process_document, and after a
\* failure of any step, the classification included, the caller holds a failed
\* result routed to manual review in which a processing error is recorded.
C3_AsStated ==
    /\ ~raised
    /\ (pc = "idle" /\ failed_step # None) =>
        /\ returned.document_type # "none"
        /\ returned.validation_status = "failed"
        /\ returned.routing.action = "manual_review"
        /\ returned.routing.manual_review_required
        /\ \E e \in {"", "timeout"} :
            /\ returned.validation_errors = <<"Processing error: " \o e>>
            /\ returned.routing.review_reason = "Processing error: " \o e

\* C3 (Spec): no exception escapes process_document; after a failure of any
\* step the caller holds a failed result routed to manual review; a failure of
\* the OCR call, the parsing, an extractor or the business rules is recorded as
\* a processing error, while a failure of the classification is absorbed by the
\* classifier and shows as the invalid document type "other" with confidence 0.
C3_FailureBecomesManualReview ==
    /\ ~raised
    /\ (pc = "idle" /\ failed_step # None) =>
        /\ returned.document_type # "none"
        /\ returned.validation_status = "failed"
        /\ returned.routing.action = "manual_review"
        /\ returned.routing.manual_review_required
        /\ failed_step # "classify" =>
            \E e \in {"", "timeout"} :
                /\ returned.document_type = "error"
                /\ returned.validation_errors = <<"Processing error: " \o e>>
                /\ returned.routing.review_reason = "Processing error: " \o e
        /\ failed_step = "classify" =>
            /\ returned.document_type = "other"
            /\ returned.classification_confidence = 0
            /\ returned.validation_errors = <<"Invalid document type: other">>
            /\ returned.routing.review_reason = "Invalid document type"

\* the classification failed and the document went through the other steps
C3_Witness ==
    /\ pc = "idle"
    /\ failed_step = "classify"
    /\ returned.document_type = "other"
    /\ PatientIsValid(returned.patient)
    /\ Len(returned.prescription) > 0

\* C4 (SpecRouting): for a document type other than ema_start_form and
\* cosentyx_start_form, apply_routing_rules leaves a failed result routed to
\* manual review with the reason "Invalid document type", whatever the validity
\* of the four entities; determine_routing is not evaluated: no create flag is
\* set and no low-confidence warning is added.
C4_InvalidDocumentType ==
    (pc = "ruled" /\ result.document_type \notin {"ema_start_form", "cosentyx_start_form"}) =>
        /\ result.validation_status = "failed"
        /\ result.routing.action = "manual_review"
        /\ result.routing.manual_review_required
        /\ result.routing.review_reason = "Invalid document type"
        /\ ~result.routing.create_patient_profile
        /\ ~result.routing.create_prescriber_profile
        /\ ~result.routing.create_prescription
        /\ result.warnings = <<>>
        /\ Len(result.validation_errors) = 1

\* a fully valid record of another document type, with a low-confidence field
C4_Witness ==
    /\ pc = "ruled"
    /\ result.document_type = "other"
    /\ PatientIsValid(result.patient)
    /\ PrescriberIsValid(result.prescriber)
    /\ PrescriptionInfoIsValid(result.prescription)
    /\ AttestationIsValid(result.attestation)
    /\ result.patient["phone"].confidence = 80
    /\ result.validation_status = "failed"

\* the prescription built from the hard-coded default combination
IsDefaultPrescription(rx) ==
    /\ rx.dosage.value = "150mg"
    /\ rx.patient_type.value = "Adult"
    /\ rx.form.value = "Sensoready Pen"
    /\ rx.dose_type.value = "Maintenance"

C6_FirstNonEmptyWins ==
    LET from_checkboxes == FromCheckboxes(textract_data)
        from_forms == FromForms(textract_data)
        from_text == FromRawText(textract_data)
    IN  /\ Len(contributed) <= 1
        /\ pc = "checkboxes" => contributed = <<>>
        /\ pc = "forms" => contributed \in {<<>>, <<"checkboxes">>}
        /\ pc = "raw_text" => contributed \in {<<>>, <<"checkboxes">>, <<"forms">>}
        /\ pc = "default" =>
            contributed \in {<<>>, <<"checkboxes">>, <<"forms">>, <<"raw_text">>}
        /\ pc \in {"create", "extracted"} =>
            /\ Len(from_checkboxes) > 0 =>
                contributed = <<"checkboxes">> /\ combinations = from_checkboxes
            /\ (Len(from_checkboxes) = 0 /\ Len(from_forms) > 0) =>
                contributed = <<"forms">> /\ combinations = from_forms
            /\ (Len(from_checkboxes) = 0 /\ Len(from_forms) = 0 /\ Len(from_text) > 0) =>
                contributed = <<"raw_text">> /\ combinations = from_text
            /\ (Len(from_checkboxes) = 0 /\ Len(from_forms) = 0 /\ Len(from_text) = 0) =>
                /\ contributed = <<"default">>
                /\ combinations = <<Combination("150mg", "adult", "sensoready_pen",
                                                "maintenance", None)>>

\* the form fields won although the raw text holds marked lines too
C6_Witness ==
    /\ pc = "extracted"
    /\ textract_data.checkboxes # {}
    /\ contributed = <<"forms">>
    /\ Len(FromRawText(textract_data)) > 0
    /\ Len(prescriptions) = 2

\* C7 (SpecExtract): after checkbox detection each (patient_type, dosage) group
\* holds N x M combinations, N its classified device checkboxes and M its
\* classified dosing checkboxes: every (device, dosing) pair once, nothing for
\* a group with N = 0 or M = 0, and no combination outside the groups.
C7_CrossProduct ==
    pc = "forms" =>
        LET data == checkbox_data(textract_data.checkboxes)
            InGroup(rec, pt, d) == rec.patient_type = pt /\ rec.dosage = d
            Devices(pt, d) ==
                {i \in 1..Len(data) : InGroup(data[i], pt, d) /\ data[i].type = "device"}
            Dosings(pt, d) ==
                {i \in 1..Len(data) : InGroup(data[i], pt, d) /\ data[i].type = "dosing"}
            Emitted(pt, d) ==
                {i \in 1..Len(combinations) : InGroup(combinations[i], pt, d)}
        IN  /\ \A i \in 1..Len(combinations) :
                /\ combinations[i].patient_type \in {"adult", "pediatric"}
                /\ combinations[i].dosage \in {"75mg", "150mg", "300mg"}
            /\ \A pt \in {"adult", "pediatric"}, d \in {"75mg", "150mg", "300mg"} :
                /\ Cardinality(Emitted(pt, d))
                       = Cardinality(Devices(pt, d)) * Cardinality(Dosings(pt, d))
                /\ \A dev \in Devices(pt, d), dos \in Dosings(pt, d) :
                    Cardinality({i \in Emitted(pt, d) :
                                    /\ combinations[i].form = data[dev].form
                                    /\ combinations[i].dose_type = data[dos].dose_type})
                    = Cardinality({p \in Devices(pt, d) \X Dosings(pt, d) :
                                    /\ data[p[1]].form = data[dev].form
                                    /\ data[p[2]].dose_type = data[dos].dose_type})

\* two devices and two dosings of the adult 150 mg section give four combinations
C7_Witness ==
    /\ pc = "forms"
    /\ textract_data.checkboxes = {"cb_S150", "cb_Y150", "cb_L150", "cb_M150"}
    /\ Len(combinations) = 4
    /\ contributed = <<"checkboxes">>

\* C8 (SpecCreate): for every combination of the lookup table the quantity is
\* doses_per_cycle x units_per_dose, with 4 doses for loading, 2 for
\* maintenance increase, 1 for maintenance, and 2 units for 300 mg by
\* Sensoready pen or syringe, 1 otherwise.
C8_QuantityFormula ==
    pc = "extracted" =>
        \A i \in 1..Len(combinations) :
            LET c == combinations[i]
                doses_per_cycle ==
                    IF c.dose_type = "loading" THEN 4
                    ELSE IF c.dose_type = "maintenance_increase" THEN 2
                    ELSE 1
                units_per_dose ==
                    IF c.dosage = "300mg" /\ c.form \in {"sensoready_pen", "syringe"}
                        THEN 2
                    ELSE 1
                text == (1 :> "1") @@ (2 :> "2") @@ (4 :> "4") @@ (8 :> "8")
            IN  DOMAIN Lookup(c.dosage, c.patient_type, c.form, c.dose_type) # {} =>
                    prescriptions[i].quantity.value = text[doses_per_cycle * units_per_dose]

\* C9 (SpecExtract): every prescription returned by extract with dose type
\* Loading has refills "0", whichever strategy produced its combination.
C9_LoadingHasNoRefills ==
    pc = "extracted" =>
        \A i \in 1..Len(prescriptions) :
            prescriptions[i].dose_type.value = "Loading" =>
                prescriptions[i].refills.value = "0"

\* C10 (SpecCreate): the refills value of a prescription is the combination's
\* refills text when there is one; otherwise "0" for loading; otherwise
\* "12 or 0" for maintenance and maintenance_increase; otherwise the refills of
\* the lookup-table entry, "12" when the table has none.
C10_RefillsPriority ==
    pc = "extracted" =>
        \A i \in 1..Len(combinations) :
            LET c == combinations[i]
                refills == prescriptions[i].refills.value
                entry == Lookup(c.dosage, c.patient_type, c.form, c.dose_type)
                extracted == c.refills_text # None /\ c.refills_text # ""
            IN  /\ extracted => refills = c.refills_text
                /\ (~extracted /\ c.dose_type = "loading") => refills = "0"
                /\ (~extracted /\ c.dose_type \in {"maintenance", "maintenance_increase"}) =>
                    refills = "12 or 0"
                /\ (~extracted /\ c.dose_type \notin
                        {"loading", "maintenance", "maintenance_increase"}) =>
                    refills = IF "refills" \in DOMAIN entry THEN entry["refills"] ELSE "12"

\* an extracted refills text has replaced the default of a maintenance dose
C10_Witness ==
    /\ pc = "extracted"
    /\ combinations[1].dose_type = "maintenance"
    /\ combinations[1].refills_text = "12 or 3"
    /\ prescriptions[1].refills.value = "12 or 3"

\* C11 (SpecExtract): every combination, and every prescription returned by
\* extract, with dosage 75mg has patient type pediatric, and every one with
\* dosage 300mg has patient type adult, whichever strategy produced it.
C11_DosageFixesPatientType ==
    /\ \A i \in 1..Len(combinations) :
        /\ combinations[i].dosage = "75mg" => combinations[i].patient_type = "pediatric"
        /\ combinations[i].dosage = "300mg" => combinations[i].patient_type = "adult"
    /\ \A i \in 1..Len(prescriptions) :
        /\ prescriptions[i].dosage.value = "75mg"
            => prescriptions[i].patient_type.value = "Pediatric"
        /\ prescriptions[i].dosage.value = "300mg"
            => prescriptions[i].patient_type.value = "Adult"

\* C12 (SpecExtract): with no form fields, no tables and no raw text, extract
\* returns zero prescriptions when no checkbox is selected, when only device
\* checkboxes are selected, and when only dosing checkboxes are selected.
C12_NoPairNoPrescription ==
    LET data == checkbox_data(textract_data.checkboxes)
        only(type) == /\ Len(data) = Cardinality(textract_data.checkboxes)
                      /\ \A i \in 1..Len(data) : data[i].type = type
    IN  /\ pc = "extracted"
        /\ textract_data.tables = "none"
        /\ textract_data.forms = "none"
        /\ textract_data.raw_text = "empty"
        /\ only("device") \/ only("dosing")
        => Len(prescriptions) = 0

\* C13 (SpecExtract): a table row with the generic "12 refills" phrase and no
\* digit after "or" is recorded with the sentinel "12 or Unknown", and a
\* prescription that takes its refills from such a row carries "12 or Unknown".
C13_UnknownSentinel ==
    LET tables == TableInputs[textract_data.tables]
        refills == refills_data(tables, 1)
        Generic(entry) ==
            LET row_text == Join(tables[entry.table_idx + 1][entry.table_row + 1])
            IN  JHas(row_text, "12 refills") /\ FirstFeature(row_text, "table_refills") = None
        Matches(c) == {j \in 1..Len(refills) :
                          /\ refills[j].patient_type = c.patient_type
                          /\ refills[j].dosage = c.dosage
                          /\ refills[j].dose_type = c.dose_type}
    IN  /\ pc # "checkboxes" /\ textract_data.checkboxes # {}
            => \A j \in 1..Len(refills) :
                   Generic(refills[j]) => refills[j].refills = "12 or Unknown"
        /\ pc = "extracted" /\ contributed = <<"checkboxes">>
            => \A i \in 1..Len(prescriptions) :
                   /\ combinations[i].dose_type \in {"maintenance", "maintenance_increase"}
                   /\ Matches(combinations[i]) # {}
                   /\ Generic(refills[Min(Matches(combinations[i]))])
                   => prescriptions[i].refills.value = "12 or Unknown"

\* C14 (SpecCreate): the form value of a prescription built by
\* _create_prescription names the device with its strength, which depends on
\* the dosage: Sensoready Pen and Prefilled Syringe "(1x150 mg/mL)" at 150mg
\* and "(2x150 mg/mL)" at 300mg, Prefilled Syringe "(1x75 mg/mL)" at 75mg,
\* UnoReady Pen "(1x300 mg/2 mL)"; the product is "COSENTYX " and the dosage.
C14_FormDisplayWithStrength ==
    pc = "extracted" /\ Len(combinations) = 1 /\ Len(prescriptions) = 1 =>
        LET c == combinations[1]
            rx == prescriptions[1]
        IN  /\ rx.product.value = "COSENTYX " \o c.dosage
            /\ c.form = "sensoready_pen" /\ c.dosage = "150mg"
                => rx.form.value = "Sensoready Pen (1x150 mg/mL)"
            /\ c.form = "syringe" /\ c.dosage = "150mg"
                => rx.form.value = "Prefilled Syringe (1x150 mg/mL)"
            /\ c.form = "sensoready_pen" /\ c.dosage = "300mg"
                => rx.form.value = "Sensoready Pen (2x150 mg/mL)"
            /\ c.form = "syringe" /\ c.dosage = "300mg"
                => rx.form.value = "Prefilled Syringe (2x150 mg/mL)"
            /\ c.form = "syringe" /\ c.dosage = "75mg"
                => rx.form.value = "Prefilled Syringe (1x75 mg/mL)"
            /\ c.form = "unoready_pen"
                => rx.form.value = "UnoReady Pen (1x300 mg/2 mL)"

(***************************************************************************)
(* BedrockClassifier.classify_document                                     *)
(*                                                                         *)
(* The text of a model response is modelled by what the parser does with   *)
(* it: it is not a string at all, it has no "{...}" part, the part is not  *)
(* JSON, or the part is a JSON object.  An object is the record of the two *)
(* keys the code reads: document_type is a string, or None for a missing   *)
(* key; confidence is [type |-> "number", number |-> n] with n in          *)
(* hundredths, a value of another JSON type, or of type "absent" for a     *)
(* missing key.                                                            *)
(***************************************************************************)
Number(n) == [type |-> "number", number |-> n]

Absent == [type |-> "absent", number |-> 0]

\* the responses _invoke_bedrock can hand back
ClassifierResponses ==
    {[kind |-> k, object |-> [document_type |-> None, confidence |-> Absent]] :
        k \in {"not_text", "no_braces", "invalid_json"}}
    \cup {[kind |-> "object",
            object |-> [document_type |-> document_type, confidence |-> confidence]] :
            document_type \in {None, "cosentyx_start_form", "ema_start_form", "other",
                               "cover_letter"},
            confidence \in {Absent, Number(95), Number(0),
                            [type |-> "string", number |-> 0],
                            [type |-> "null", number |-> 0]}}

\* a variant of the parser whose fallback dicts name the type "unknown"
parse_classification_response_unknown(text) ==
    IF text.kind = "object" THEN text.object
    ELSE [document_type |-> "unknown", confidence |-> Number(0)]

\* _parse_classification_response on a string: the object, or the fallback dict
\* (no "{...}" part) or the dict of the JSONDecodeError handler
parse_classification_response(text) ==
    IF text.kind = "object" THEN text.object
    ELSE [document_type |-> "other", confidence |-> Number(0)]

InitClassify ==
    /\ pc = "invoke"
    /\ request \in {"", "COSENTYX Start Form"}
    /\ response = None
    /\ threads = <<>>
    /\ history = <<>>
    /\ PipelineIdle
    /\ ExtractIdle
    /\ bucket = {}

\* _invoke_bedrock returned the text of the model's answer
InvokeBedrock ==
    /\ pc = "invoke"
    /\ response' \in ClassifierResponses
    /\ pc' = "parse"
    /\ UNCHANGED <<request, threads, history, pipeline_vars, extract_vars>>
    /\ UNCHANGED bucket

\* invoke_model, json.loads of the body or the subscripts raised
InvokeBedrockFails ==
    /\ pc = "invoke"
    /\ failed_step' = "invoke"
    /\ pc' = "except"
    /\ UNCHANGED <<result, returned, raised, duplicate_signatures, docs, extract_vars,
                   service_vars>>

\* result = self._parse_classification_response(response)
ParseClassificationResponse ==
    /\ pc = "parse"
    /\ IF response.kind = "not_text"
           \* response.find raises, and the parser catches JSONDecodeError only
           THEN /\ failed_step' = "parse"
                /\ pc' = "except"
                /\ UNCHANGED result
       ELSE /\ result' = parse_classification_response(response)
            /\ failed_step' = IF response.kind = "object" THEN None ELSE "parse"
            /\ pc' = "read"
    /\ UNCHANGED <<returned, raised, duplicate_signatures, docs, extract_vars, service_vars>>

\* doc_type, confidence = result.get(...); the log line formats confidence as a float
ReadClassification ==
    /\ pc = "read"
    /\ LET \* result.get("document_type", "other"), result.get("confidence", 0.0)
           doc_type == IF result.document_type = None THEN "other"
                       ELSE result.document_type
           confidence == IF result.confidence = Absent THEN Number(0)
                         ELSE result.confidence
       IN  IF confidence.type = "number"
               THEN /\ returned' = <<doc_type, confidence.number>>
                    /\ pc' = "classified"
                    /\ UNCHANGED failed_step
           ELSE /\ failed_step' = "format"
                /\ pc' = "except"
                /\ UNCHANGED returned
    /\ UNCHANGED <<result, raised, duplicate_signatures, docs, extract_vars, service_vars>>

\* except Exception: return "other", 0.0
ClassifyExcept ==
    /\ pc = "except"
    /\ returned' = <<"other", 0>>
    /\ pc' = "classified"
    /\ UNCHANGED <<result, raised, failed_step, duplicate_signatures, docs, extract_vars,
                   service_vars>>

\* process_document, steps 3 and 4, on the pair classify_document returned
RouteClassified ==
    /\ pc = "classified"
    /\ \E patient \in PatientOutputs, prescriber \in PrescriberOutputs,
          layout \in PipelineLayouts, attestation \in AttestationOutputs :
            result' = apply_routing_rules(
                          [ExtractionResult EXCEPT
                              !.document_type = returned[1],
                              !.classification_confidence = returned[2],
                              !.patient = patient,
                              !.prescriber = prescriber,
                              !.prescription = extract(layout),
                              !.attestation = attestation])
    /\ pc' = "routed"
    /\ UNCHANGED <<returned, raised, failed_step, duplicate_signatures, docs, extract_vars,
                   service_vars>>

NextClassify ==
    \/ InvokeBedrock
    \/ InvokeBedrockFails
    \/ ParseClassificationResponse
    \/ ReadClassification
    \/ ClassifyExcept
    \/ RouteClassified

SpecClassify == InitClassify /\ [][NextClassify]_vars

\* C15 (SpecClassify): classify_document never raises; when the model call
\* fails or the response cannot be parsed it returns exactly ("other", 0.0),
\* and process_document then routes the document as failed / manual_review.
C15_ClassifierFailsToOther ==
    /\ ~raised
    /\ pc \in {"classified", "routed"} /\ failed_step # None => returned = <<"other", 0>>
    /\ pc = "routed" /\ failed_step # None =>
        /\ result.validation_status = "failed"
        /\ result.routing.action = "manual_review"
        /\ result.routing.manual_review_required

\* a call failure and an unparsable response have both been routed
C15_Witness ==
    /\ pc = "routed"
    /\ failed_step = "parse"
    /\ response.kind = "invalid_json"
    /\ returned = <<"other", 0>>
    /\ result.routing.action = "manual_review"

(***************************************************************************)
(* BedrockValidator.validate_and_correct                                   *)
(* The request is the field, its value and the setting                     *)
(* enable_bedrock_validation.                                              *)
(***************************************************************************)
\* _parse_validation_response on a string: the object, or the fallback dict
\* (no "{...}" part) or the dict of the JSONDecodeError handler
parse_validation_response(text) ==
    IF text.kind = "object"
        THEN [valid |-> text.object.valid, corrected_value |-> text.object.corrected_value,
              reason |-> "from the model"]
    ELSE IF text.kind = "no_braces"
        THEN [valid |-> TRUE, corrected_value |-> "", reason |-> "Failed to parse response"]
    ELSE [valid |-> TRUE, corrected_value |-> "", reason |-> "JSON parse error"]

InitValidate ==
    /\ pc = "validate"
    /\ request \in [field_name : {"npi", "dob", "first_name"},
                    value : {"", "1234567809", "01/02/1980"},
                    enable_bedrock_validation : BOOLEAN]
    /\ response = None
    /\ threads = <<>>
    /\ history = <<>>
    /\ PipelineIdle
    /\ ExtractIdle
    /\ bucket = {}

\* if not settings.enable_bedrock_validation: return the value as valid
ValidateDisabled ==
    /\ pc = "validate"
    /\ ~request.enable_bedrock_validation
    /\ returned' = [valid |-> TRUE, corrected_value |-> request.value,
                    reason |-> "Bedrock validation disabled"]
    /\ pc' = "validated"
    /\ UNCHANGED <<result, raised, failed_step, duplicate_signatures, docs, extract_vars,
                   service_vars>>

\* the prompt is built and _invoke_bedrock is called: it answers or raises
InvokeValidator ==
    LET \* text returned by BedrockValidator._invoke_bedrock, bedrock_validator.py 126-127
        ValidatorResponses ==
            {[kind |-> k, object |-> [valid |-> TRUE, corrected_value |-> ""]] :
                k \in {"not_text", "no_braces", "invalid_json"}}
            \cup {[kind |-> "object", object |-> [valid |-> valid, corrected_value |-> v]] :
                    valid \in BOOLEAN, v \in {"", "1234567890", "1234567809"}}
    IN
    /\ pc = "validate"
    /\ request.enable_bedrock_validation
    /\ \/ /\ response' \in ValidatorResponses
          /\ pc' = "parse"
          /\ UNCHANGED failed_step
       \/ /\ failed_step' = "invoke"
          /\ pc' = "except"
          /\ UNCHANGED response
    /\ UNCHANGED <<result, returned, raised, duplicate_signatures, docs, extract_vars,
                   request, threads, history>>
    /\ UNCHANGED bucket

\* result = self._parse_validation_response(response); return result
ParseValidationResponse ==
    /\ pc = "parse"
    /\ IF response.kind = "not_text"
           \* response.find raises, and the parser catches JSONDecodeError only
           THEN /\ failed_step' = "parse"
                /\ pc' = "except"
                /\ UNCHANGED <<result, returned>>
       ELSE /\ result' = parse_validation_response(response)
            /\ returned' = result'
            /\ failed_step' = IF response.kind = "object" THEN None ELSE "parse"
            /\ pc' = "validated"
    /\ UNCHANGED <<raised, duplicate_signatures, docs, extract_vars, service_vars>>

\* except Exception: fail open
ValidateExcept ==
    /\ pc = "except"
    /\ returned' = [valid |-> TRUE, corrected_value |-> request.value,
                    reason |-> "Validation error"]
    /\ pc' = "validated"
    /\ UNCHANGED <<result, raised, failed_step, duplicate_signatures, docs, extract_vars,
                   service_vars>>

NextValidate ==
    \/ ValidateDisabled
    \/ InvokeValidator
    \/ ParseValidationResponse
    \/ ValidateExcept

SpecValidate == InitValidate /\ [][NextValidate]_vars

\* C16 (SpecValidate): validate_and_correct never raises, and when validation
\* is disabled, when the model call fails and when the response cannot be
\* parsed, its result has valid = true and corrected_value equal to the
\* value it was given.
C16_FailsOpen ==
    /\ ~raised
    /\ pc = "validated" /\ (~request.enable_bedrock_validation \/ failed_step # None) =>
        /\ returned.valid
        /\ returned.corrected_value = request.value

\* C17 (Spec): an NPI that fails its validator is returned with validated =
\* false, is reported in the validation_errors or the warnings of the
\* document, and the other fields of the prescriber, the patient, the
\* prescriptions and the attestation are extracted all the same.
C17_ValidationFailureIsReported ==
    /\ pc = "idle"
    /\ docs > 0
    /\ returned # NoResult
    /\ validate_document_type(returned.document_type)
    /\ Truthy(returned.prescriber.npi.value)
    /\ ~returned.prescriber.npi.validated
    => /\ \/ Len(returned.validation_errors) > 0
          \/ \E i \in 1..Len(returned.warnings) :
                /\ "entity" \in DOMAIN returned.warnings[i]
                /\ returned.warnings[i].entity = "prescriber"
                /\ returned.warnings[i].field = "npi"
       /\ returned.prescriber.phone.validated
       /\ returned.patient \in PatientOutputs
       /\ returned.attestation \in AttestationOutputs
       /\ Len(returned.prescription) > 0

(***************************************************************************)
(* Two callers of BusinessRules.check_duplicate on one instance.  The test *)
(* `combined_sig in self.duplicate_signatures` and the later               *)
(* `self.duplicate_signatures.add(combined_sig)` are separate statements:  *)
(* another thread can run between them.                                    *)
(***************************************************************************)
InitThreads ==
    /\ pc = "threads"
    /\ \E submitted \in [{1, 2} -> PatientOutputs \X PipelineLayouts] :
        threads = [t \in {1, 2} |->
                      [pc |-> "test",
                       result |-> [ExtractionResult EXCEPT
                                      !.patient = submitted[t][1],
                                      !.prescription = extract(submitted[t][2])],
                       combined_sig |-> None,
                       is_duplicate |-> FALSE]]
    /\ request = None
    /\ response = None
    /\ history = <<>>
    /\ PipelineIdle
    /\ ExtractIdle
    /\ bucket = {}

\* lines 27-35: the signature, the membership test, and the return of a duplicate
ThreadTest ==
    /\ pc = "threads"
    /\ \E t \in DOMAIN threads :
        /\ threads[t].pc = "test"
        /\ LET combined_sig == CombinedSignature(threads[t].result)
           IN  threads' = [threads EXCEPT
                              ![t].combined_sig = combined_sig,
                              ![t].is_duplicate = combined_sig \in duplicate_signatures,
                              ![t].pc = IF combined_sig \in duplicate_signatures
                                            THEN "returned" ELSE "add"]
    /\ UNCHANGED <<pc, pipeline_vars, extract_vars, request, response, history>>
    /\ UNCHANGED bucket

\* lines 37-38: the insertion, and the return of a first submission
ThreadAdd ==
    /\ pc = "threads"
    /\ \E t \in DOMAIN threads :
        /\ threads[t].pc = "add"
        /\ duplicate_signatures' = duplicate_signatures \cup {threads[t].combined_sig}
        /\ threads' = [threads EXCEPT ![t].pc = "returned"]
    /\ UNCHANGED <<pc, result, returned, raised, failed_step, docs, extract_vars,
                   request, response, history>>
    /\ UNCHANGED bucket

NextThreads == ThreadTest \/ ThreadAdd

SpecThreads == InitThreads /\ [][NextThreads]_vars

\* C18 (SpecThreads): when two check_duplicate calls with the same combined
\* signature run concurrently on one BusinessRules instance, exactly one of
\* them returns is_duplicate = False.
C18_ExactlyOneFirstSubmission ==
    /\ pc = "threads"
    /\ \A t \in DOMAIN threads : threads[t].pc = "returned"
    /\ threads[1].combined_sig = threads[2].combined_sig
    => Cardinality({t \in DOMAIN threads : ~threads[t].is_duplicate}) = 1

(***************************************************************************)
(* Repeated calls of PrescriptionExtractor.extract.  The extractor keeps   *)
(* no attribute between calls: combinations, checkbox_data, refills_data   *)
(* and the PrescriptionInfo are locals created by each call.               *)
(***************************************************************************)
MaxCalls == 3   \* calls of extract in one run

InitRepeat ==
    /\ pc = "call"
    /\ request = None
    /\ response = None
    /\ threads = <<>>
    /\ history = <<>>
    /\ PipelineIdle
    /\ ExtractIdle
    /\ bucket = {}

\* a variant of the entry of extract that goes on with the list of the last call
CallExtract_keeping_combinations ==
    /\ pc = "call"
    /\ Len(history) < MaxCalls
    /\ textract_data' \in PipelineLayouts
    /\ contributed' = <<>>
    /\ prescriptions' = <<>>
    /\ pc' = "checkboxes"
    /\ UNCHANGED <<combinations, pipeline_vars, service_vars>>

\* extract is entered: prescription_info = PrescriptionInfo(), combinations = []
CallExtract ==
    /\ pc = "call"
    /\ Len(history) < MaxCalls
    /\ textract_data' \in PipelineLayouts
    /\ combinations' = <<>>
    /\ contributed' = <<>>
    /\ prescriptions' = <<>>
    /\ pc' = "checkboxes"
    /\ UNCHANGED <<pipeline_vars, service_vars>>

\* return prescription_info
ReturnExtract ==
    /\ pc = "extracted"
    /\ history' = Append(history, [textract_data |-> textract_data,
                                   combinations |-> combinations,
                                   prescriptions |-> prescriptions])
    /\ pc' = "call"
    /\ UNCHANGED <<pipeline_vars, extract_vars, request, response, threads>>
    /\ UNCHANGED bucket

NextRepeat ==
    \/ CallExtract
    \/ TryCheckboxes
    \/ TryForms
    \/ TryRawText
    \/ UseDefault
    \/ CreateAll
    \/ ReturnExtract

SpecRepeat == InitRepeat /\ [][NextRepeat]_vars

C20_KeptCheckboxesAreComplete ==
    LET data == checkbox_data(textract_data.checkboxes)
        ids == {data[i].id : i \in 1..Len(data)}
    IN  pc = "forms"
        => /\ \A i \in 1..Len(data) :
                /\ data[i].type \in {"device", "dosing"}
                /\ data[i].dosage # None
                /\ data[i].patient_type # None
                /\ data[i].type = "device"
                       => data[i].form # None /\ data[i].dose_type = None
                /\ data[i].type = "dosing"
                       => data[i].dose_type # None /\ data[i].form = None
           /\ \A i \in 1..Len(Boxes) :
                /\ Boxes[i].id \in textract_data.checkboxes
                /\ Boxes[i].has_block
                /\ \/ checkbox_info(Boxes[i]).type = None
                   \/ checkbox_info(Boxes[i]).dosage = None
                   \/ checkbox_info(Boxes[i]).patient_type = None
                => Boxes[i].id \notin ids

\* checkbox detection returned combinations for a layout with a device checkbox,
\* a dosing checkbox and a selected checkbox that could not be classified
C20_Witness ==
    LET data == checkbox_data(textract_data.checkboxes)
    IN  /\ pc = "forms"
        /\ \E i \in 1..Len(data) : data[i].type = "device"
        /\ \E i \in 1..Len(data) : data[i].type = "dosing"
        /\ \E i \in 1..Len(Boxes) :
                /\ Boxes[i].id \in textract_data.checkboxes
                /\ Boxes[i].has_block
                /\ ~checkbox_info(Boxes[i]).skipped
                /\ \/ checkbox_info(Boxes[i]).type = None
                   \/ checkbox_info(Boxes[i]).dosage = None
        /\ Len(combinations) > 0

\* C21 (SpecExtract): a combination returned by checkbox detection carries a refills
\* text exactly when its dose type is maintenance or maintenance_increase and
\* the refills table has an entry with the same (patient_type, dosage,
\* dose_type); the text is that of the first such entry in table and row
\* order; an entry with an undetermined patient type, dosage or dose type
\* matches no combination, and a loading combination carries no refills text.
C21_RefillsMatchExactTriple ==
    LET combos == combinations
        refills == refills_data(TableInputs[textract_data.tables], 1)
        same(i, c) == /\ refills[i].patient_type = c.patient_type
                      /\ refills[i].dosage = c.dosage
                      /\ refills[i].dose_type = c.dose_type
        entries(c) == {i \in 1..Len(refills) : same(i, c)}
        earliest(c) == CHOOSE i \in entries(c) : \A j \in entries(c) : i <= j
    IN  pc = "forms"
        => /\ \A n \in 1..Len(combos) :
                LET c == combos[n]
                IN  /\ c.refills_text # None
                        <=> /\ c.dose_type \in {"maintenance", "maintenance_increase"}
                            /\ entries(c) # {}
                    /\ c.refills_text # None
                        => c.refills_text = refills[earliest(c)].refills
                    /\ c.dose_type = "loading" => c.refills_text = None
           /\ \A i \in 1..Len(refills) :
                None \in {refills[i].patient_type, refills[i].dosage, refills[i].dose_type}
                => \A n \in 1..Len(combos) : ~same(i, combos[n])

\* checkbox detection ran on a table with an undetermined entry and a loading
\* entry, and found a loading combination without refills next to a
\* maintenance combination whose entry is not the first of its group
C21_Witness ==
    LET combos == combinations
        refills == refills_data(TableInputs[textract_data.tables], 1)
    IN  /\ pc = "forms"
        /\ \E i \in 1..Len(refills) : refills[i].dosage = None
        /\ \E n \in 1..Len(combos) :
                /\ combos[n].dose_type = "loading"
                /\ combos[n].refills_text = None
                /\ \E i \in 1..Len(refills) :
                        /\ refills[i].dose_type = "loading"
                        /\ refills[i].dosage = combos[n].dosage
                        /\ refills[i].patient_type = combos[n].patient_type
        /\ \E n \in 1..Len(combos) :
                /\ combos[n].dose_type = "maintenance"
                /\ combos[n].refills_text = "12 or 3"
                /\ \E i \in 1..Len(refills) :
                        /\ refills[i].dosage = combos[n].dosage
                        /\ refills[i].patient_type = combos[n].patient_type
                        /\ refills[i].refills = "12 or 0"

\* C22 (SpecExtract): for every selected checkbox the nearby lines (same page,
\* vertical offset below 0.03) and the same-row lines (vertical offset below
\* 0.02) are in ascending order of horizontal offset + 2 x vertical offset, so
\* the closest line and the closest three minimise that combined distance;
\* lines of another page are never included.
C22_SortedByCombinedDistance ==
    LET Offset(a, b) == IF a < b THEN b - a ELSE a - b
        LineOf(b) == CHOOSE i \in 1..Len(Lines) : Lines[i].text = b.text
        combined(cb, b) == Offset(Lines[LineOf(b)].left, cb.left)
                           + 2 * Offset(Lines[LineOf(b)].top, cb.top)
        ascending(cb, blocks) ==
            \A j, k \in 1..Len(blocks) :
                j < k => combined(cb, blocks[j]) <= combined(cb, blocks[k])
        same_page(cb, blocks) ==
            \A j \in 1..Len(blocks) : Lines[LineOf(blocks[j])].page = cb.page
    IN  pc = "forms"
        => \A i \in 1..Len(Boxes) :
                Boxes[i].id \in textract_data.checkboxes /\ Boxes[i].has_block
                => /\ ascending(Boxes[i], nearby_text_blocks(Boxes[i]))
                   /\ ascending(Boxes[i], same_row_text_blocks(Boxes[i]))
                   /\ same_page(Boxes[i], nearby_text_blocks(Boxes[i]))
                   /\ same_page(Boxes[i], same_row_text_blocks(Boxes[i]))

MaxChecks == 3   \* calls of check_duplicate in one run

\* the results submitted: patients that differ by case or by date of birth,
\* and containers that hold the same prescriptions in either order
Submissions ==
    LET first == create_prescription(default_combination)
        second == create_prescription(
                      Combination("300mg", "adult", "unoready_pen", "loading", None))
    IN  {[ExtractionResult EXCEPT !.patient = p, !.prescription = rxs] :
            p \in {GoodPatient,
                   WithField(GoodPatient, "first_name", Field("V", 90, TRUE)),
                   WithField(GoodPatient, "dob", Field("w", 90, TRUE))},
            rxs \in {<<first, second>>, <<second, first>>, <<first>>}}

InitDuplicate ==
    /\ pc = "check"
    /\ request = None
    /\ response = None
    /\ threads = <<>>
    /\ history = <<>>
    /\ PipelineIdle
    /\ ExtractIdle
    /\ bucket = {}

\* one call of check_duplicate, from its entry to its return
CallCheckDuplicate ==
    /\ pc = "check"
    /\ Len(history) < MaxChecks
    /\ \E r \in Submissions :
        LET checked == check_duplicate(r, duplicate_signatures)
        IN  /\ duplicate_signatures' = checked.signatures
            /\ history' = Append(history, [result |-> r,
                                           is_duplicate |-> checked.is_duplicate,
                                           signature |-> checked.signature])
    /\ UNCHANGED <<pc, result, returned, raised, failed_step, docs, extract_vars,
                   request, response, threads>>
    /\ UNCHANGED bucket

SpecDuplicate == InitDuplicate /\ [][CallCheckDuplicate]_vars

\* C25 (SpecDuplicate): a check_duplicate call returns is_duplicate = TRUE
\* exactly when an earlier call on the instance had the same combined
\* signature; the stored set holds the signatures of all the calls so far;
\* and neither the case of the patient's name nor the order of the
\* prescriptions in the container changes the outcome.
C25_DuplicateIffSeenBefore ==
    LET Count(rxs, rx) == Cardinality({i \in 1..Len(rxs) : rxs[i] = rx})
        SameRx(a, b) == /\ Len(a) = Len(b)
                        /\ \A i \in 1..Len(a) : Count(a, a[i]) = Count(b, a[i])
        SamePatient(p, q) ==
            \A f \in {"first_name", "last_name", "dob"} : Lower(p[f].value) = Lower(q[f].value)
    IN  /\ \A k \in 1..Len(history) :
                history[k].is_duplicate
                <=> \E j \in 1..(k - 1) :
                        CombinedSignature(history[j].result)
                        = CombinedSignature(history[k].result)
        /\ duplicate_signatures = {history[k].signature : k \in 1..Len(history)}
        /\ \A k \in 1..Len(history) :
                (\E j \in 1..(k - 1) :
                    /\ SamePatient(history[j].result.patient, history[k].result.patient)
                    /\ SameRx(history[j].result.prescription, history[k].result.prescription))
                => history[k].is_duplicate

\* the same patient was submitted with the name in another case and with the
\* prescriptions in the other order, after a first submission and before an
\* unrelated one
C25_Witness ==
    /\ Len(history) = 3
    /\ ~history[1].is_duplicate
    /\ history[2].is_duplicate
    /\ ~history[3].is_duplicate
    /\ history[1].result.patient["first_name"].value # history[2].result.patient["first_name"].value
    /\ history[1].result.prescription # history[2].result.prescription
    /\ Cardinality(duplicate_signatures) = 2

\* C26 (Spec): the duplicate check of process_document changes neither
\* validation_status, validation_errors nor any routing field; it adds at most
\* the one "Potential duplicate submission" warning, and does so exactly when
\* the signature was already stored; it runs on every result that leaves the
\* routing rules; and a document whose processing raised stores no signature.
C26_DuplicateCheckKeepsRouting ==
    [][LET seen == CombinedSignature(result) \in duplicate_signatures
           checked ==
               /\ result'.validation_status = result.validation_status
               /\ result'.validation_errors = result.validation_errors
               /\ result'.routing = result.routing
               /\ result'.document_type = result.document_type
               /\ seen => /\ Len(result'.warnings) = Len(result.warnings) + 1
                          /\ SubSeq(result'.warnings, 1, Len(result.warnings))
                             = result.warnings
                          /\ result'.warnings[Len(result'.warnings)].kind
                             = "Potential duplicate submission"
               /\ ~seen => result'.warnings = result.warnings
               /\ CombinedSignature(result) \in duplicate_signatures'
       IN  /\ (pc = "duplicate" /\ pc' = "return") => checked
           /\ (pc = "rules" /\ pc' # "idle") => pc' = "duplicate"
           /\ pc' = "return" => pc = "duplicate"
           /\ pc # "duplicate" => duplicate_signatures' = duplicate_signatures
           /\ (pc' = "idle" /\ pc \notin {"return", "idle"})
                => duplicate_signatures' = duplicate_signatures
      ]_vars

\* a second submission of a complete document was returned with the routing
\* create_full_profile and the duplicate warning
C26_Witness ==
    /\ pc = "idle"
    /\ docs = 2
    /\ returned # NoResult
    /\ returned.validation_status = "complete"
    /\ returned.routing.action = "create_full_profile"
    /\ Len(returned.warnings) = 1
    /\ returned.warnings[1].kind = "Potential duplicate submission"
    /\ Cardinality(duplicate_signatures) = 1

(***************************************************************************)
(* lambda_handler and the S3 moves.  request holds the event and the       *)
(* handler's locals, result what process_document returned, response the   *)
(* dict handed back, bucket the keys present in the bucket.                *)
(***************************************************************************)
\* prefix + source_key.split('/')[-1]
DestinationKey(prefix, source_key) ==
    IF source_key \in {"uploads/a.pdf", "a.pdf", "processed/a.pdf"}
        THEN prefix \o "a.pdf"
    ELSE prefix \o source_key

\* the event: an S3 record, a record without "s3", a direct call, anything else
InitLambda ==
    /\ pc = "handler"
    /\ request \in
        {[event |-> "s3", s3_key |-> k, destination_key |-> None, moved |-> None] :
            k \in {"uploads/a.pdf", "a.pdf", "processed/a.pdf"}}
        \cup {[event |-> e, s3_key |-> None, destination_key |-> None, moved |-> None] :
                e \in {"records_without_s3", "document_base64", "other"}}
    /\ bucket = IF request.event = "s3" THEN {request.s3_key} ELSE {}
    /\ response = None
    /\ threads = <<>>
    /\ history = <<>>
    /\ PipelineIdle
    /\ ExtractIdle

\* lines 83-91: neither "Records" nor "document_base64"
RejectEvent ==
    /\ pc = "handler"
    /\ request.event = "other"
    /\ response' = [statusCode |-> 400]
    /\ pc' = "done"
    /\ UNCHANGED <<pipeline_vars, extract_vars, request, threads, history, bucket>>

\* lines 58-75: the S3 record is read and the object downloaded, or not
DownloadFile ==
    /\ pc = "handler"
    /\ request.event = "s3"
    /\ \/ pc' = "process" /\ UNCHANGED response
       \/ pc' = "done" /\ response' = [statusCode |-> 500]
    /\ UNCHANGED <<pipeline_vars, extract_vars, request, threads, history, bucket>>

\* lines 58-60 with a record that has no "s3": nothing is assigned, no return
SkipRecord ==
    /\ pc = "handler"
    /\ request.event = "records_without_s3"
    /\ pc' = "process"
    /\ UNCHANGED <<pipeline_vars, extract_vars, request, response, threads, history, bucket>>

\* lines 78-81: the document is decoded, or b64decode raises into line 114
DecodeDocument ==
    /\ pc = "handler"
    /\ request.event = "document_base64"
    /\ \/ pc' = "process" /\ UNCHANGED response
       \/ pc' = "done" /\ response' = [statusCode |-> 500]
    /\ UNCHANGED <<pipeline_vars, extract_vars, request, threads, history, bucket>>

\* line 94: process_document; without document bytes its OCR step raises
ProcessDocument ==
    /\ pc = "process"
    /\ IF request.event = "records_without_s3"
           THEN result' = error_result("timeout")
       ELSE result' \in
                {apply_routing_rules([ExtractionResult EXCEPT
                                         !.document_type = t, !.patient = p,
                                         !.prescriber = q,
                                         !.prescription = extract(NoLayout),
                                         !.attestation = a]) :
                    t \in {"cosentyx_start_form", "other"}, p \in PatientOutputs,
                    q \in PrescriberOutputs, a \in AttestationOutputs}
                \cup {error_result("timeout")}
    /\ pc' = "move"
    /\ UNCHANGED <<returned, raised, failed_step, duplicate_signatures, docs, extract_vars,
                   service_vars>>

\* lines 97-101: which move, if any
ChooseMove ==
    LET s3_processed_prefix == "processed/"   \* config/settings.py 19
        s3_failed_prefix == "failed/"         \* config/settings.py 20
    IN
    /\ pc = "move"
    /\ IF Truthy(request.s3_key) /\ result.validation_status = "complete"
           THEN /\ request' = [request EXCEPT !.destination_key =
                                   DestinationKey(s3_processed_prefix, request.s3_key)]
                /\ pc' = "copy"
       ELSE IF Truthy(request.s3_key) /\ result.validation_status = "failed"
           THEN /\ request' = [request EXCEPT !.destination_key =
                                   DestinationKey(s3_failed_prefix, request.s3_key)]
                /\ pc' = "copy"
       ELSE /\ pc' = "respond"
            /\ UNCHANGED request
    /\ UNCHANGED <<pipeline_vars, extract_vars, response, threads, history, bucket>>

\* a variant of the failed copy that goes on to delete the source
CopyFails_then_delete ==
    /\ pc = "copy"
    /\ pc' = "delete"
    /\ UNCHANGED <<pipeline_vars, extract_vars, request, response, threads, history, bucket>>

\* copy_object succeeded; S3 refuses to copy an object onto itself
CopyObject ==
    /\ pc = "copy"
    /\ request.s3_key \in bucket
    /\ request.destination_key # request.s3_key
    /\ bucket' = bucket \cup {request.destination_key}
    /\ pc' = "delete"
    /\ UNCHANGED <<pipeline_vars, extract_vars, request, response, threads, history>>

\* copy_object raised: the except clause returns False
CopyFails ==
    /\ pc = "copy"
    /\ request' = [request EXCEPT !.moved = "False"]
    /\ pc' = "respond"
    /\ UNCHANGED <<pipeline_vars, extract_vars, response, threads, history, bucket>>

\* delete_object succeeded: the move returns True
DeleteObject ==
    /\ pc = "delete"
    /\ bucket' = bucket \ {request.s3_key}
    /\ request' = [request EXCEPT !.moved = "True"]
    /\ pc' = "respond"
    /\ UNCHANGED <<pipeline_vars, extract_vars, response, threads, history>>

\* delete_object raised: the except clause returns False
DeleteFails ==
    /\ pc = "delete"
    /\ request' = [request EXCEPT !.moved = "False"]
    /\ pc' = "respond"
    /\ UNCHANGED <<pipeline_vars, extract_vars, response, threads, history, bucket>>

\* lines 104-112
Respond ==
    /\ pc = "respond"
    /\ response' = [statusCode |-> 200]
    /\ pc' = "done"
    /\ UNCHANGED <<pipeline_vars, extract_vars, request, threads, history, bucket>>

NextLambda ==
    \/ RejectEvent
    \/ DownloadFile
    \/ SkipRecord
    \/ DecodeDocument
    \/ ProcessDocument
    \/ ChooseMove
    \/ CopyObject
    \/ CopyFails
    \/ DeleteObject
    \/ DeleteFails
    \/ Respond

SpecLambda == InitLambda /\ [][NextLambda]_vars

C28_CopyBeforeDelete ==
    [][LET source == request.s3_key
           destination == request.destination_key
           deleted == source \in bucket /\ source \notin bucket'
           copy_failed == pc = "copy" /\ pc' = "respond"
       IN  /\ deleted => (pc = "delete" /\ destination \in bucket)
           /\ copy_failed => (bucket' = bucket /\ request'.moved = "False")
           /\ (request.event = "s3") => (source \in bucket' \/ destination \in bucket')
      ]_vars

C28_Witness ==
    /\ pc = "done"
    /\ request.moved = "True"
    /\ request.s3_key \notin bucket
    /\ request.destination_key \in bucket

\* C29 (SpecExtract): the kind of a selected checkbox follows from its left
\* coordinate alone.  A checkbox left of 0.35 is a device or nothing and has
\* no dose type, one from 0.35 up to 0.70 is a dosing or nothing and has no
\* form, one at 0.70 or beyond has no type, is not in checkbox_data, and the
\* combinations are those that the same form gives with that checkbox
\* unselected.
C29_KindFollowsLeft ==
    LET selected == textract_data.checkboxes
        far_right == {Boxes[i].id : i \in {j \in 1..Len(Boxes) : Boxes[j].left >= 700}}
        data == checkbox_data(selected)
        analysed == {i \in 1..Len(Boxes) : Boxes[i].id \in selected /\ Boxes[i].has_block}
        KindIsByLeft(cb) ==
            LET info == checkbox_info(cb)
            IN  /\ (cb.left < 350) => (info.type \in {"device", None} /\ info.dose_type = None)
                /\ (cb.left >= 350 /\ cb.left < 700)
                       => (info.type \in {"dosing", None} /\ info.form = None)
                /\ (cb.left >= 700)
                       => (info.type = None /\ info.form = None /\ info.dose_type = None)
    IN  pc = "forms"
        => /\ \A i \in analysed : KindIsByLeft(Boxes[i])
           /\ \A i \in 1..Len(data) : data[i].id \notin far_right
           /\ combinations
                  = FromCheckboxes([textract_data EXCEPT !.checkboxes = selected \ far_right])

\* checkbox detection paired a device and a dosing checkbox on a form whose
\* right-hand checkbox, next to the same lines, is selected as well
C29_Witness ==
    LET data == checkbox_data(textract_data.checkboxes)
    IN  /\ pc = "forms"
        /\ "cb_RF" \in textract_data.checkboxes
        /\ \E i \in 1..Len(data) : data[i].type = "device" /\ data[i].left < 350
        /\ \E i \in 1..Len(data) : data[i].type = "dosing" /\ data[i].left >= 350
        /\ Len(combinations) > 0
        /\ JHas(TextsOf(nearby_text_blocks(Boxes[5])), "maintenance:")

(***************************************************************************)
(* Steps 3 and 4 of process_document on form and payload values.           *)
(* request holds the document type, whether payload_data was given, and    *)
(* for three fields the value in the form and the value in the payload.    *)
(***************************************************************************)
\* a variant that leaves the confidence of find_field on a payload value
extract_field_keeping_confidence(form_value, has_payload, payload_value, optional) ==
    LET from_payload == ~Truthy(form_value) /\ has_payload
        value == IF from_payload THEN payload_value ELSE form_value
    IN  Field(value, IF Truthy(form_value) THEN 90 ELSE 0, Truthy(value))

\* _extract_first_name and its siblings: form first, then payload, then the validator
extract_field(form_value, has_payload, payload_value, optional) ==
    LET \* find_field, base_extractor.py 31-48
        find_field == <<form_value, IF Truthy(form_value) THEN 90 ELSE 0>>
        from_payload == ~Truthy(find_field[1]) /\ has_payload
        value == IF from_payload THEN payload_value ELSE find_field[1]
        confidence == IF from_payload /\ Truthy(value) THEN 100 ELSE find_field[2]
        \* FieldValidators: strip the value, then accept or reject it
        Strip(x) == IF x = " v " THEN "v" ELSE x
        is_valid == IF Truthy(value) THEN Strip(value) = "v" ELSE optional
        validated_value == IF Truthy(value) THEN Strip(value)
                           ELSE IF optional THEN None
                           ELSE ""
    IN  Field(IF is_valid THEN validated_value ELSE value, confidence, is_valid)

InitFields ==
    /\ pc = "extract"
    /\ request \in [document_type : {"cosentyx_start_form", "other"},
                    has_payload : BOOLEAN,
                    forms : [{"first_name", "email", "npi"} -> {None, "", " v ", "bad"}],
                    payload : [{"first_name", "email", "npi"} -> {None, "v"}]]
    /\ textract_data \in PipelineLayouts
    /\ combinations = <<>>
    /\ contributed = <<>>
    /\ prescriptions = <<>>
    /\ response = None
    /\ threads = <<>>
    /\ history = <<>>
    /\ bucket = {}
    /\ PipelineIdle

\* processor.py 72-85: the four extractors, then apply_routing_rules
ExtractAndRoute ==
    /\ pc = "extract"
    /\ LET FieldOf(name, optional) ==
               extract_field(request.forms[name], request.has_payload,
                             request.payload[name], optional)
       IN  \E combos \in {detect_checked_combinations(textract_data)} :
           \E extracted \in
                  {[ExtractionResult EXCEPT
                       !.document_type = request.document_type,
                       !.patient = [GoodPatient EXCEPT
                                       !["first_name"] = FieldOf("first_name", FALSE),
                                       !["email"] = FieldOf("email", TRUE)],
                       !.prescriber = [GoodPrescriber EXCEPT
                                          !["npi"] = FieldOf("npi", FALSE)],
                       !.prescription = CreatePrescriptions(combos),
                       !.attestation = GoodAttestation]} :
               result' = apply_routing_rules(extracted)
    /\ pc' = "routed"
    /\ UNCHANGED <<returned, raised, failed_step, duplicate_signatures, docs, extract_vars,
                   service_vars>>

SpecFields == InitFields /\ [][ExtractAndRoute]_vars

\* C30 (SpecFields): in a result of the extractors every field with a value
\* has confidence 0.9, 0.95 or 1.0, a field with confidence 0.0 has no
\* value, and the result carries no low-confidence warning.
C30_NoLowConfidenceWarning ==
    LET FieldIsSure(f) ==
            /\ Truthy(f.value) => f.confidence \in {90, 95, 100}
            /\ (f.confidence = 0) => ~Truthy(f.value)
    IN  pc = "routed"
        => /\ \A n \in PatientFields : FieldIsSure(result.patient[n])
           /\ \A n \in PrescriberFields : FieldIsSure(result.prescriber[n])
           /\ \A i \in 1..Len(result.prescription) :
                \A n \in DOMAIN result.prescription[i] : FieldIsSure(result.prescription[i][n])
           /\ result.warnings = <<>>
           /\ check_low_confidence_warnings(result).warnings = <<>>

\* an accepted document whose first name came from the payload, whose NPI
\* came from the form, whose e-mail is absent, and whose prescription has
\* refills from the lookup table
C30_Witness ==
    /\ pc = "routed"
    /\ result.document_type = "cosentyx_start_form"
    /\ result.patient["first_name"] = Field("v", 100, TRUE)
    /\ result.patient["email"] = Field(None, 0, TRUE)
    /\ result.prescriber["npi"] = Field("bad", 90, FALSE)
    /\ Len(result.prescription) > 0
    /\ result.prescription[1]["product"].confidence = 95
    /\ result.prescription[1]["refills"].confidence = 90
    /\ result.warnings = <<>>

====
